---- MODULE Spec2Model ----
(***************************************************************************)
(* mongoose-builder: the filter-to-stage compiler (FilterStageBuilder and  *)
(* its helper classes) and the pipeline assembler                          *)
(* (AggregationPipelineBuilder).                                           *)
(*                                                                         *)
(* A filter dictionary is a JavaScript object: here a sequence of entries  *)
(* [k |-> key, v |-> value] in insertion order with pairwise distinct      *)
(* keys.  A key is the sequence of its '-'-separated segments, so that     *)
(* `${field}-in` is field \o <<"in">> and key.includes("-") is Len(key)>1. *)
(* A value is a tagged record (see the constructors below).                *)
(*                                                                         *)
(* Specifications:                                                         *)
(*   Spec          every operation of one FilterStageBuilder               *)
(*   SpecRules     its rule calls and build()                              *)
(*   SpecPipeline  every operation of one AggregationPipelineBuilder, its  *)
(*                 match callbacks run on builders of their own            *)
(*   SpecLookup    the two lookup helpers called directly                  *)
(*   SpecDates     setTimezone, addDateRangeMatch and the four date        *)
(*                 comparison rules on date keys                           *)
(*   SpecRegex     addRegexMatch on raw strings given by their characters  *)
(*   SpecQuery     applyDefaultFilters and getFilterQuery among rule calls *)
(*                 and build()                                             *)
(* Variables marked "history" record what happened and are read by no      *)
(* operation.                                                              *)
(***************************************************************************)
EXTENDS Integers, Sequences, FiniteSets, TLC

VARIABLES
  filters,        \* FilterStageBuilder.filters (the dictionary, mutated in place)
  matchStages,    \* FilterStageBuilder.matchStages
  filterQuery,    \* FilterStageBuilder.filterQuery
  timezone,       \* FilterStageBuilder.timezone
  queryRet,       \* what the most recent getFilterQuery() returned
  builds,         \* number of build() calls made on the builder
  ret,            \* what the most recent build() returned
  origin,         \* history: for matchStages[i], the call that pushed it and the keys it read
  initFilters,    \* history: the dictionary the builder was constructed with
  pipeline,       \* AggregationPipelineBuilder.pipeline
  apbFilters,     \* AggregationPipelineBuilder.filters (its own shallow copy)
  callerFilters,  \* the object handed to the AggregationPipelineBuilder constructor
  apbRet,         \* what the most recent AggregationPipelineBuilder.build() returned
  callLog,        \* history: the AggregationPipelineBuilder calls made, in order
  contrib,        \* history: every stage a call handed over, with the call's number
  builtAfter      \* history: how many calls had been made when build() last ran

fsbVars ==
  <<filters, matchStages, filterQuery, timezone, queryRet, builds, ret, origin, initFilters>>
apbVars == <<pipeline, apbFilters, callerFilters, apbRet, callLog, contrib, builtAfter>>
vars == <<filters, matchStages, filterQuery, timezone, queryRet, builds, ret, origin, initFilters,
          pipeline, apbFilters, callerFilters, apbRet, callLog, contrib, builtAfter>>

----------------------------------------------------------------------------
(* Bounds of the model.                                                    *)

\* Rules that emit without consuming a dictionary key (override values,
\* addNotDeleted, addFieldExists, lookups) are taken only while matchStages
\* is shorter than this.
MaxStages == 1
\* build() is called at most this often on one builder.
MaxBuilds == 2
\* AggregationPipelineBuilder: calls made on one assembler.
MaxCalls == 2
\* addRegexMatch: the length of the raw strings given character by character.
MaxLen == 3

----------------------------------------------------------------------------
(* JavaScript values.                                                      *)

Undefined == [t |-> "undefined"]
Null == [t |-> "null"]
NaN == [t |-> "nan"]
Str(s) == [t |-> "string", s |-> s]
Num(n) == [t |-> "number", n |-> n]
Bool(b) == [t |-> "boolean", b |-> b]
Arr(a) == [t |-> "array", a |-> a]
DateOf(ms) == [t |-> "date", ms |-> ms]
InvalidDate == [t |-> "date", invalid |-> TRUE]
ObjectId(h) == [t |-> "objectid", h |-> h]
\* An object that has no primitive value: its toString and valueOf are not
\* functions, as in Object.create(null) or the JSON { "toString": 1, "valueOf": 1 }.
NoPrimitive == [t |-> "object", primitive |-> FALSE]
\* What ToPrimitive throws for such an object.
TypeError == [t |-> "error", name |-> "TypeError"]

ValidHex == "507f1f77bcf86cd799439011"
OtherHex == "507f191e810c19729de860ea"

typeof(v) ==
  CASE v.t = "undefined" -> "undefined"
    [] v.t = "string" -> "string"
    [] v.t = "number" -> "number"
    [] v.t = "nan" -> "number"
    [] v.t = "boolean" -> "boolean"
    [] OTHER -> "object"

IsArray(v) == v.t = "array"

\* x != null  (loose comparison: neither undefined nor null)
NotNullish(v) == v.t \notin {"undefined", "null"}

\* Boolean(v)
Truthy(v) ==
  CASE v.t \in {"undefined", "null", "nan"} -> FALSE
    [] v.t = "boolean" -> v.b
    [] v.t = "number" -> v.n # 0
    [] v.t = "string" -> v.s # ""
    [] OTHER -> TRUE

\* String.prototype.toLowerCase on the strings of the model
toLowerCase(s) ==
  CASE s = "TRUE" -> "true"
    [] s = "False" -> "false"
    [] OTHER -> s

\* Number(v)
Number(v) ==
  CASE v.t = "number" -> v
    [] v.t = "null" -> Num(0)
    [] v.t = "boolean" -> IF v.b THEN Num(1) ELSE Num(0)
    [] v.t = "string" ->
         (CASE v.s = "" -> Num(0)
            [] v.s = "30" -> Num(30)
            [] OTHER -> NaN)
    [] v.t = "date" -> IF "ms" \in DOMAIN v THEN Num(v.ms) ELSE NaN
    [] v.t = "array" ->
         (CASE Len(v.a) = 0 -> Num(0)
            [] Len(v.a) = 1 /\ v.a[1] = Str("30") -> Num(30)
            [] Len(v.a) = 1 /\ v.a[1].t = "number" -> v.a[1]
            [] OTHER -> NaN)
    [] v = NoPrimitive -> TypeError
    [] OTHER -> NaN

isNaN(v) == v.t = "nan"

----------------------------------------------------------------------------
(* Keys and the dictionary.                                                *)

\* `${field}-<suffix>`
Sfx(field, suffix) == field \o suffix

\* key.includes("-")
HasSeparator(key) == Len(key) > 1

Keys(d) == {d[i].k : i \in 1..Len(d)}

Has(d, key) == key \in Keys(d)

\* d[key]
Get(d, key) ==
  IF Has(d, key) THEN (CHOOSE e \in {d[i] : i \in 1..Len(d)} : e.k = key).v ELSE Undefined

\* delete d[key]
Delete(d, key) == SelectSeq(d, LAMBDA e : e.k # key)

\* d[key] = value  (a new key goes last in the enumeration order)
Put(d, key, value) ==
  IF Has(d, key)
    THEN [i \in 1..Len(d) |-> IF d[i].k = key THEN [k |-> key, v |-> value] ELSE d[i]]
    ELSE Append(d, [k |-> key, v |-> value])

\* value !== undefined && value !== null && value !== ''
Present(v) == v # Undefined /\ v # Null /\ v # Str("")

----------------------------------------------------------------------------
(* Stages.  { $match: { [f]: c } } is Match(f, c); a condition c is either *)
(* a plain value or an operator object Ops(<<..>>) listing its entries in  *)
(* insertion order.                                                        *)

Match(f, c) == [s |-> "$match", f |-> f, c |-> c]
Op(o, v) == [o |-> o, v |-> v]
Ops(entries) == [t |-> "ops", e |-> entries]

\* What a helper did: the dictionary it leaves, the stages it handed to
\* pushMatchStage, and (history) the dictionary keys whose values went into them.
Done(d, push, src) == [filters |-> d, push |-> push, src |-> src]

\* A helper that threw e before it pushed or deleted anything: the call does
\* not return, and the dictionary is as it was.
Thrown(d, e) == [filters |-> d, push |-> <<>>, src |-> {}, threw |-> e]

----------------------------------------------------------------------------
(* StringMatchHelper.                                                      *)

\* String(v), for the values of the model; a value whose text is not one of
\* the model's strings keeps the symbolic form [t |-> "string", of |-> v].
String(v) ==
  CASE v.t = "string" -> v
    [] v = Num(30) -> Str("30")
    [] v = Num(0) -> Str("0")
    [] v = Bool(TRUE) -> Str("true")
    [] v = Bool(FALSE) -> Str("false")
    [] v = Arr(<<>>) -> Str("")
    [] v = NoPrimitive -> TypeError
    [] OTHER -> [t |-> "string", of |-> v]

\* A non-empty string given character by character.
Text(cs) == [t |-> "string", chars |-> cs]

\* The characters that the class [.*+?^${}()|[\]\\] matches.
RegexMeta == {".", "*", "+", "?", "^", "$", "{", "}", "(", ")", "|", "[", "]", "\\"}

\* cs.replace(/[meta]/g, '\\$&'): every match is replaced, from left to
\* right, by a backslash followed by the match itself.
RECURSIVE replaceAll(_, _)
replaceAll(cs, meta) ==
  IF cs = <<>> THEN <<>>
  ELSE (IF Head(cs) \in meta THEN <<"\\", Head(cs)>> ELSE <<Head(cs)>>)
       \o replaceAll(Tail(cs), meta)

\* The replacement with a class that leaves the backslash out.
escapeRegexNoBackslash(sv) ==
  IF "chars" \in DOMAIN sv THEN Text(replaceAll(sv.chars, RegexMeta \ {"\\"}))
  ELSE IF sv = Str("a.b") THEN Str("a\\.b") ELSE sv

\* s.replace(/[.*+?^${}()|[\]\\]/g, '\\$&').  Of the strings given whole,
\* "a.b" is the one that holds a metacharacter.
escapeRegex(sv) ==
  IF "chars" \in DOMAIN sv THEN Text(replaceAll(sv.chars, RegexMeta))
  ELSE IF sv = Str("a.b") THEN Str("a\\.b") ELSE sv

\* addStringMatch deleting the key also when it was given an override.
addStringMatchDeletes(d, field, value) ==
  LET filterValue == IF value # Undefined THEN value ELSE Get(d, field) IN
  IF filterValue = Undefined \/ filterValue = Str("") THEN Done(d, <<>>, {})
  ELSE IF typeof(filterValue) # "string" THEN Done(d, <<>>, {})
  ELSE Done(Delete(d, field), <<Match(field, filterValue)>>, {field})

addStringMatch(d, field, value) ==
  LET filterValue == IF value # Undefined THEN value ELSE Get(d, field) IN
  IF filterValue = Undefined \/ filterValue = Str("") THEN Done(d, <<>>, {})
  ELSE IF typeof(filterValue) # "string" THEN Done(d, <<>>, {})
  ELSE Done(IF value = Undefined THEN Delete(d, field) ELSE d,
            <<Match(field, filterValue)>>,
            IF value = Undefined THEN {field} ELSE {})

\* options: string = 'i' is the default of the parameter.
addRegexMatch(d, field, optionsArg) ==
  LET raw == Get(d, field)
      options == IF optionsArg = Undefined THEN Str("i") ELSE optionsArg IN
  IF ~Present(raw) THEN Done(d, <<>>, {})
  ELSE IF String(raw) = TypeError THEN Thrown(d, TypeError)
  ELSE Done(Delete(d, field),
            <<Match(field, Ops(<<Op("$regex", escapeRegex(String(raw))),
                                 Op("$options", options)>>))>>,
            {field})

addNotEqualMatch(d, field) ==
  LET key == Sfx(field, <<"not">>)
      value == Get(d, key) IN
  IF Present(value)
    THEN Done(Delete(d, key), <<Match(field, Ops(<<Op("$ne", value)>>))>>, {key})
    ELSE Done(d, <<>>, {})

----------------------------------------------------------------------------
(* NumberMatchHelper.                                                      *)

\* addNumberMatch emitting the value as it was found, uncoerced.
addNumberMatchRaw(d, field, value) ==
  LET filterValue == IF value # Undefined THEN value ELSE Get(d, field)
      numValue == Number(filterValue) IN
  IF filterValue = Undefined \/ filterValue = Str("") THEN Done(d, <<>>, {})
  ELSE IF numValue = TypeError THEN Thrown(d, TypeError)
  ELSE IF isNaN(numValue) THEN Done(d, <<>>, {})
  ELSE Done(IF value = Undefined THEN Delete(d, field) ELSE d,
            <<Match(field, filterValue)>>,
            IF value = Undefined THEN {field} ELSE {})

addNumberMatch(d, field, value) ==
  LET filterValue == IF value # Undefined THEN value ELSE Get(d, field)
      numValue == Number(filterValue) IN
  IF filterValue = Undefined \/ filterValue = Str("") THEN Done(d, <<>>, {})
  ELSE IF numValue = TypeError THEN Thrown(d, TypeError)
  ELSE IF isNaN(numValue) THEN Done(d, <<>>, {})
  ELSE Done(IF value = Undefined THEN Delete(d, field) ELSE d,
            <<Match(field, numValue)>>,
            IF value = Undefined THEN {field} ELSE {})

\* addGreaterThanMatch, addLessThanMatch, addGreaterThanOrEqualMatch and
\* addLessThanOrEqualMatch are not reachable through FilterStageBuilder or
\* AggregationPipelineBuilder and are left out.

\* addRangeMatch pushing its range also when it is empty.
addRangeMatchEmpty(d, field) ==
  LET fromKey == Sfx(field, <<"from">>)
      toKey == Sfx(field, <<"to">>)
      from == Get(d, fromKey)
      to == Get(d, toKey)
      useFrom == NotNullish(from) /\ from # Str("")
      useTo == NotNullish(to) /\ to # Str("")
      range == (IF useFrom THEN <<Op("$gte", from)>> ELSE <<>>)
               \o (IF useTo THEN <<Op("$lte", to)>> ELSE <<>>) IN
  Done(Delete(Delete(d, fromKey), toKey),
       <<Match(field, Ops(range))>>,
       (IF useFrom THEN {fromKey} ELSE {}) \cup (IF useTo THEN {toKey} ELSE {}))

addRangeMatch(d, field) ==
  LET fromKey == Sfx(field, <<"from">>)
      toKey == Sfx(field, <<"to">>)
      from == Get(d, fromKey)
      to == Get(d, toKey)
      useFrom == NotNullish(from) /\ from # Str("")
      useTo == NotNullish(to) /\ to # Str("")
      range == (IF useFrom THEN <<Op("$gte", from)>> ELSE <<>>)
               \o (IF useTo THEN <<Op("$lte", to)>> ELSE <<>>) IN
  Done(Delete(Delete(d, fromKey), toKey),
       IF Len(range) > 0 THEN <<Match(field, Ops(range))>> ELSE <<>>,
       (IF useFrom THEN {fromKey} ELSE {}) \cup (IF useTo THEN {toKey} ELSE {}))

----------------------------------------------------------------------------
(* Dates.  An instant is a number of milliseconds since the epoch; a time  *)
(* zone is a fixed offset.  dayjs is a dependency, modelled by what the    *)
(* helpers use of it: dayjs.tz(input, tz), isValid, startOf('day'),        *)
(* endOf('day'), hour/minute/second/millisecond.                           *)

HourMs == 3600000
MinuteMs == 60000
SecondMs == 1000
DayMs == 24 * HourMs

Timezones == {"UTC", "Asia/Tokyo"}

TzOffset(tz) == IF tz = "Asia/Tokyo" THEN 9 * HourMs ELSE 0

IsoDay == "1970-01-02"
IsoDayTime == "1970-01-03T10:30:15"

\* What the engine's own Date parser makes of a string that is not in ISO
\* form ("30", "10:30:00"): this differs between engines, so a call takes
\* it as an input.
Legacy == {InvalidDate, DateOf(DayMs)}

\* The wall-clock reading of a string, as if it were UTC.
parseString(s, legacy) ==
  CASE s = IsoDay -> DateOf(DayMs)
    [] s = IsoDayTime -> DateOf(2 * DayMs + 10 * HourMs + 30 * MinuteMs + 15 * SecondMs)
    [] s \in {"30", "10:30:00"} -> legacy
    [] OTHER -> InvalidDate

isValid(dt) == "ms" \in DOMAIN dt

\* dayjs.tz(input, tz): a string is read as wall-clock time in tz, anything
\* else as an instant (new Date(input)).
tz(input, zone, legacy) ==
  CASE input.t = "string" ->
         (LET p == parseString(input.s, legacy) IN
          IF isValid(p) THEN DateOf(p.ms - TzOffset(zone)) ELSE InvalidDate)
    [] input.t = "number" -> DateOf(input.n)
    [] input.t = "boolean" -> DateOf(IF input.b THEN 1 ELSE 0)
    [] input.t = "date" -> input
    [] OTHER -> InvalidDate

\* startOf('day') taken on the UTC calendar whatever the zone.
startOfDayUtc(dt, zone) == DateOf((dt.ms \div DayMs) * DayMs)

startOfDay(dt, zone) ==
  DateOf(((dt.ms + TzOffset(zone)) \div DayMs) * DayMs - TzOffset(zone))

endOfDay(dt, zone) == DateOf(startOfDay(dt, zone).ms + DayMs - 1)

\* hour()*3600000 + minute()*60000 + second()*1000
secondOfDayMs(dt, zone) == (((dt.ms + TzOffset(zone)) % DayMs) \div SecondMs) * SecondMs

\* ... + millisecond()
timeOfDayMs(dt, zone) == (dt.ms + TzOffset(zone)) % DayMs

\* `${field}` inside an $expr
FieldName(field) == [t |-> "string", key |-> field]

Expr(conds) == Match(<<"$expr">>, Ops(<<Op("$and", Arr(conds))>>))

----------------------------------------------------------------------------
(* DateMatchHelper.                                                        *)

addDateMatch(d, field, zone, value, legacy) ==
  LET filterValue == IF value # Undefined THEN value ELSE Get(d, field)
      parsedDate == tz(filterValue, zone, legacy)
      emit(dateValue) ==
        Done(IF value = Undefined THEN Delete(d, field) ELSE d,
             <<Match(field, dateValue)>>,
             IF value = Undefined THEN {field} ELSE {}) IN
  IF filterValue = Undefined \/ filterValue = Str("") THEN Done(d, <<>>, {})
  ELSE IF filterValue.t = "date" THEN emit(filterValue)
  ELSE IF typeof(filterValue) = "string"
    THEN (IF ~isValid(parsedDate) THEN Done(d, <<>>, {}) ELSE emit(parsedDate))
  ELSE Done(d, <<>>, {})

addDateRangeMatch(d, field, zone, legacy) ==
  LET fromKey == Sfx(field, <<"from">>)
      toKey == Sfx(field, <<"to">>)
      from == Get(d, fromKey)
      to == Get(d, toKey)
      mFrom == tz(from, zone, legacy)
      mTo == tz(to, zone, legacy)
      useFrom == NotNullish(from) /\ from # Str("") /\ isValid(mFrom)
      useTo == NotNullish(to) /\ to # Str("") /\ isValid(mTo)
      range == (IF useFrom THEN <<Op("$gte", startOfDay(mFrom, zone))>> ELSE <<>>)
               \o (IF useTo THEN <<Op("$lte", endOfDay(mTo, zone))>> ELSE <<>>) IN
  Done(Delete(Delete(d, fromKey), toKey),
       IF Len(range) > 0 THEN <<Match(field, Ops(range))>> ELSE <<>>,
       (IF useFrom THEN {fromKey} ELSE {}) \cup (IF useTo THEN {toKey} ELSE {}))

\* The four date comparisons share one body up to the suffix, the operator
\* and the day boundary (atEnd: endOf('day'), else startOf('day')).
\* dateCompareMatch comparing with the parsed instant itself.
dateCompareMatchUnrounded(d, field, zone, suffix, operator, atEnd, legacy) ==
  LET filterKey == Sfx(field, <<suffix>>)
      rawValue == Get(d, filterKey)
      dayjsValue == tz(rawValue, zone, legacy)
      ok == Present(rawValue) /\ isValid(dayjsValue) IN
  Done(Delete(d, filterKey),
       IF ok THEN <<Match(field, Ops(<<Op(operator, dayjsValue)>>))>> ELSE <<>>,
       IF ok THEN {filterKey} ELSE {})

dateCompareMatch(d, field, zone, suffix, operator, atEnd, legacy) ==
  LET filterKey == Sfx(field, <<suffix>>)
      rawValue == Get(d, filterKey)
      dayjsValue == tz(rawValue, zone, legacy)
      ok == Present(rawValue) /\ isValid(dayjsValue)
      dateValue == IF atEnd THEN endOfDay(dayjsValue, zone) ELSE startOfDay(dayjsValue, zone) IN
  Done(Delete(d, filterKey),
       IF ok THEN <<Match(field, Ops(<<Op(operator, dateValue)>>))>> ELSE <<>>,
       IF ok THEN {filterKey} ELSE {})

addGreaterThanDateMatch(d, field, zone, legacy) ==
  dateCompareMatch(d, field, zone, "gtDate", "$gt", TRUE, legacy)
addGreaterThanOrEqualDateMatch(d, field, zone, legacy) ==
  dateCompareMatch(d, field, zone, "gteDate", "$gte", FALSE, legacy)
addLessThanDateMatch(d, field, zone, legacy) ==
  dateCompareMatch(d, field, zone, "ltDate", "$lt", FALSE, legacy)
addLessThanOrEqualDateMatch(d, field, zone, legacy) ==
  dateCompareMatch(d, field, zone, "lteDate", "$lte", TRUE, legacy)

RangeWithinDate == <<"range", "within", "date">>
RangeWithinTime == <<"range", "within", "time">>

IsTrueFlag(flag) == flag = Bool(TRUE) \/ flag = Str("true")

fallWithinDateRange(d, startField, endField, zone, clock) ==
  LET flag == Get(d, RangeWithinDate)
      now == startOfDay(DateOf(clock), zone) IN
  IF ~IsTrueFlag(flag) THEN Done(d, <<>>, {})
  ELSE Done(Delete(d, RangeWithinDate),
            <<Expr(<<Ops(<<Op("$lte", Arr(<<FieldName(startField), now>>))>>),
                     Ops(<<Op("$gte", Arr(<<FieldName(endField), now>>))>>)>>)>>,
            {RangeWithinDate})

fallWithinTimeRange(d, startField, endField, zone, timeStr, clock, legacy) ==
  LET flag == Get(d, RangeWithinTime)
      time == IF Truthy(timeStr) THEN tz(timeStr, zone, legacy) ELSE DateOf(clock)
      timeMs == Num(timeOfDayMs(time, zone))
      side(operator, field) ==
        Ops(<<Op(operator,
                 Arr(<<Ops(<<Op("$add",
                               Arr(<<Num(0),
                                     Ops(<<Op("$ifNull", Arr(<<FieldName(field), Num(0)>>))>>)>>))>>),
                       timeMs>>))>>) IN
  IF ~IsTrueFlag(flag) THEN Done(d, <<>>, {})
  ELSE IF ~isValid(time) THEN Done(d, <<>>, {})
  ELSE Done(Delete(d, RangeWithinTime),
            <<Expr(<<side("$lte", startField), side("$gte", endField)>>)>>,
            {RangeWithinTime})

addTimeRangeMatch(d, field1, field2, zone, legacy) ==
  LET fromFilterKey == Sfx(field1, <<"time", "from">>)
      toFilterKey == Sfx(field2, <<"time", "to">>)
      fromTimeStr == Get(d, fromFilterKey)
      toTimeStr == Get(d, toFilterKey)
      fromTime == tz(fromTimeStr, zone, legacy)
      toTime == tz(toTimeStr, zone, legacy)
      useFrom == Present(fromTimeStr) /\ isValid(fromTime)
      useTo == Present(toTimeStr) /\ isValid(toTime)
      cond(operator, field, ms) ==
        Ops(<<Op(operator,
                 Arr(<<Ops(<<Op("$ifNull", Arr(<<FieldName(field), Num(0)>>))>>), Num(ms)>>))>>)
      exprConditions ==
        (IF useFrom THEN <<cond("$gte", field1, secondOfDayMs(fromTime, zone))>> ELSE <<>>)
        \o (IF useTo THEN <<cond("$lte", field2, secondOfDayMs(toTime, zone) + 999)>> ELSE <<>>)
      d1 == IF useFrom THEN Delete(d, fromFilterKey) ELSE d
      d2 == IF useTo THEN Delete(d1, toFilterKey) ELSE d1 IN
  Done(d2,
       IF Len(exprConditions) > 0 THEN <<Expr(exprConditions)>> ELSE <<>>,
       (IF useFrom THEN {fromFilterKey} ELSE {}) \cup (IF useTo THEN {toFilterKey} ELSE {}))

addFieldsDateRangeMatch(d, startField, endField, zone, legacy) ==
  LET fromFilterKey == Sfx(startField, <<"from">>)
      toFilterKey == Sfx(endField, <<"to">>)
      dateFlag == Get(d, RangeWithinDate)
      from == Get(d, fromFilterKey)
      to == Get(d, toFilterKey)
      mFrom == tz(from, zone, legacy)
      mTo == tz(to, zone, legacy)
      useFrom == NotNullish(from) /\ from # Str("") /\ isValid(mFrom)
      useTo == NotNullish(to) /\ to # Str("") /\ isValid(mTo)
      exprConditions ==
        (IF useFrom
           THEN <<Ops(<<Op("$gte", Arr(<<FieldName(startField), startOfDay(mFrom, zone)>>))>>)>>
           ELSE <<>>)
        \o (IF useTo
              THEN <<Ops(<<Op("$lte", Arr(<<FieldName(endField), endOfDay(mTo, zone)>>))>>)>>
              ELSE <<>>)
      d1 == IF useFrom THEN Delete(d, fromFilterKey) ELSE d
      d2 == IF useTo THEN Delete(d1, toFilterKey) ELSE d1 IN
  IF ~IsTrueFlag(dateFlag) THEN Done(d, <<>>, {})
  ELSE Done(Delete(d2, RangeWithinDate),
            IF Len(exprConditions) > 0 THEN <<Expr(exprConditions)>> ELSE <<>>,
            IF Len(exprConditions) > 0
              THEN {RangeWithinDate} \cup (IF useFrom THEN {fromFilterKey} ELSE {})
                   \cup (IF useTo THEN {toFilterKey} ELSE {})
              ELSE {})

----------------------------------------------------------------------------
(* ArrayMatchHelper.  Types.ObjectId comes from mongoose: isValid accepts  *)
(* a 24-digit hexadecimal string, an ObjectId and a number.                *)

isValidObjectId(v) ==
  CASE v.t = "string" -> "s" \in DOMAIN v /\ v.s \in {ValidHex, OtherHex}
    [] v.t = "objectid" -> TRUE
    [] v.t = "number" -> TRUE
    [] OTHER -> FALSE

\* new Types.ObjectId(v)
newObjectId(v) ==
  CASE v.t = "string" -> ObjectId(v.s)
    [] v.t = "number" -> [t |-> "objectid", time |-> v.n]
    [] OTHER -> v

\* Array.isArray(value) ? value : [value]
asArray(value) == IF IsArray(value) THEN value.a ELSE <<value>>

\* arr.filter(isValid).map(v => new ObjectId(v))
validObjectIds(arr) ==
  LET validIds == SelectSeq(arr, isValidObjectId) IN
  [i \in 1..Len(validIds) |-> newObjectId(validIds[i])]

\* addInMatch leaving the key it has read
addInMatchKeepsKey(d, field, staticValues) ==
  LET filterKey == Sfx(field, <<"in">>)
      value == IF NotNullish(staticValues) THEN staticValues ELSE Get(d, filterKey) IN
  IF NotNullish(value)
    THEN Done(d, <<Match(field, Ops(<<Op("$in", Arr(asArray(value)))>>))>>,
              IF Truthy(staticValues) THEN {} ELSE {filterKey})
    ELSE Done(d, <<>>, {})

addInMatch(d, field, staticValues) ==
  LET filterKey == Sfx(field, <<"in">>)
      value == IF NotNullish(staticValues) THEN staticValues ELSE Get(d, filterKey) IN
  IF value # Undefined /\ value # Null
    THEN Done(IF ~Truthy(staticValues) THEN Delete(d, filterKey) ELSE d,
              <<Match(field, Ops(<<Op("$in", Arr(asArray(value)))>>))>>,
              IF NotNullish(staticValues) THEN {} ELSE {filterKey})
    ELSE Done(d, <<>>, {})

\* addInMatchWithObjectIds converting every candidate, valid or not.
addInMatchWithAllIds(d, field, staticValues) ==
  LET filterKey == Sfx(field, <<"in">>)
      value == IF NotNullish(staticValues) THEN staticValues ELSE Get(d, filterKey)
      arr == asArray(value)
      ids == [i \in 1..Len(arr) |-> newObjectId(arr[i])] IN
  IF value # Undefined /\ value # Null
    THEN Done(IF ~Truthy(staticValues) THEN Delete(d, filterKey) ELSE d,
              IF Len(ids) > 0 THEN <<Match(field, Ops(<<Op("$in", Arr(ids))>>))>> ELSE <<>>,
              IF NotNullish(staticValues) \/ Len(ids) = 0 THEN {} ELSE {filterKey})
    ELSE Done(d, <<>>, {})

addInMatchWithObjectIds(d, field, staticValues) ==
  LET filterKey == Sfx(field, <<"in">>)
      value == IF NotNullish(staticValues) THEN staticValues ELSE Get(d, filterKey)
      ids == validObjectIds(asArray(value)) IN
  IF value # Undefined /\ value # Null
    THEN Done(IF ~Truthy(staticValues) THEN Delete(d, filterKey) ELSE d,
              IF Len(ids) > 0 THEN <<Match(field, Ops(<<Op("$in", Arr(ids))>>))>> ELSE <<>>,
              IF NotNullish(staticValues) \/ Len(ids) = 0 THEN {} ELSE {filterKey})
    ELSE Done(d, <<>>, {})

addObjectIdMatch(d, field) ==
  LET value == Get(d, field) IN
  IF Present(value) /\ isValidObjectId(value)
    THEN Done(Delete(d, field), <<Match(field, newObjectId(value))>>, {field})
    ELSE Done(d, <<>>, {})

addObjectIdsMatch(d, field) ==
  LET value == Get(d, field)
      ids == validObjectIds(asArray(value)) IN
  IF value # Undefined /\ value # Null /\ Len(ids) > 0
    THEN Done(Delete(d, field), <<Match(field, Ops(<<Op("$in", Arr(ids))>>))>>, {field})
    ELSE Done(d, <<>>, {})

addNotInMatch(d, field, staticValues) ==
  LET filterKey == Sfx(field, <<"nin">>)
      value == IF NotNullish(staticValues) THEN staticValues ELSE Get(d, filterKey)
      emits == value # Undefined /\ value # Null IN
  Done(Delete(d, filterKey),
       IF emits THEN <<Match(field, Ops(<<Op("$nin", Arr(asArray(value)))>>))>> ELSE <<>>,
       IF emits /\ ~NotNullish(staticValues) THEN {filterKey} ELSE {})

addArrayNotEmptyMatch(d, field) ==
  LET filterKey == Sfx(field, <<"nt", "empty">>)
      value == Get(d, filterKey) IN
  IF IsTrueFlag(value)
    THEN Done(Delete(d, filterKey),
              <<Match(field, Ops(<<Op("$exists", Bool(TRUE)),
                                   Op("$not", Ops(<<Op("$size", Num(0))>>))>>))>>,
              {filterKey})
    ELSE Done(d, <<>>, {})

----------------------------------------------------------------------------
(* MiscMatchHelper.                                                        *)

DeletedAt == <<"deletedAt">>

\* addNotDeleted writing deletedAt: null into the dictionary.
addNotDeletedMarks(d) ==
  Done(Put(d, DeletedAt, Null), <<Match(DeletedAt, Null)>>, {})

addNotDeleted(d) ==
  Done(Delete(d, DeletedAt), <<Match(DeletedAt, Null)>>, {})

\* addNullMatch gated on any truthy value instead of true / "true".
addNullMatchTruthy(d, field) ==
  LET filterKey == Sfx(field, <<"isnull">>)
      value == Get(d, filterKey) IN
  IF Truthy(value)
    THEN Done(Delete(d, filterKey), <<Match(field, Null)>>, {filterKey})
    ELSE Done(d, <<>>, {})

addNullMatch(d, field) ==
  LET filterKey == Sfx(field, <<"isnull">>)
      value == Get(d, filterKey) IN
  IF IsTrueFlag(value)
    THEN Done(Delete(d, filterKey), <<Match(field, Null)>>, {filterKey})
    ELSE Done(d, <<>>, {})

addNotNullMatch(d, field) ==
  LET filterKey == Sfx(field, <<"notnull">>)
      value == Get(d, filterKey) IN
  IF IsTrueFlag(value)
    THEN Done(Delete(d, filterKey), <<Match(field, Ops(<<Op("$ne", Null)>>))>>, {filterKey})
    ELSE Done(d, <<>>, {})

\* addBooleanMatch honouring both flags in one call.
addBooleanMatchBoth(d, field) ==
  LET trueFilterKey == Sfx(field, <<"true">>)
      falseFilterKey == Sfx(field, <<"false">>)
      trueFlag == Get(d, trueFilterKey)
      falseFlag == Get(d, falseFilterKey)
      onTrue == IsTrueFlag(trueFlag)
      onFalse == IsTrueFlag(falseFlag)
      d1 == IF onTrue THEN Delete(d, trueFilterKey) ELSE d IN
  Done(IF onFalse THEN Delete(d1, falseFilterKey) ELSE d1,
       (IF onTrue THEN <<Match(field, Bool(TRUE))>> ELSE <<>>)
         \o (IF onFalse THEN <<Match(field, Bool(FALSE))>> ELSE <<>>),
       (IF onTrue THEN {trueFilterKey} ELSE {}) \cup (IF onFalse THEN {falseFilterKey} ELSE {}))

addBooleanMatch(d, field) ==
  LET trueFilterKey == Sfx(field, <<"true">>)
      falseFilterKey == Sfx(field, <<"false">>)
      trueFlag == Get(d, trueFilterKey)
      falseFlag == Get(d, falseFilterKey) IN
  IF IsTrueFlag(trueFlag)
    THEN Done(Delete(d, trueFilterKey), <<Match(field, Bool(TRUE))>>, {trueFilterKey})
  ELSE IF IsTrueFlag(falseFlag)
    THEN Done(Delete(d, falseFilterKey), <<Match(field, Bool(FALSE))>>, {falseFilterKey})
  ELSE Done(d, <<>>, {})

addExistsMatch(d, field) ==
  LET filterKey == Sfx(field, <<"exists">>)
      existsFlag == Get(d, filterKey) IN
  IF IsTrueFlag(existsFlag)
    THEN Done(Delete(d, filterKey),
              <<Match(field, Ops(<<Op("$exists", Bool(TRUE))>>))>>, {filterKey})
  ELSE IF existsFlag = Bool(FALSE) \/ existsFlag = Str("false")
    THEN Done(Delete(d, filterKey),
              <<Match(field, Ops(<<Op("$exists", Bool(FALSE))>>))>>, {filterKey})
  ELSE Done(d, <<>>, {})

----------------------------------------------------------------------------
(* CompoundMatchHelper.                                                    *)

\* conditions && Array.isArray(conditions) && conditions.length > 0
NonEmptyArray(v) == Truthy(v) /\ IsArray(v) /\ Len(v.a) > 0

\* addOrMatch, addOrMatchWithPrefix and addAndMatch share one body up to
\* the key and the operator.
\* compoundMatch taking any array, the empty one included.
compoundMatchAnyArray(d, filterKey, operator) ==
  LET conditions == Get(d, filterKey) IN
  IF IsArray(conditions)
    THEN Done(Delete(d, filterKey), <<Match(<<operator>>, conditions)>>, {filterKey})
    ELSE Done(d, <<>>, {})

compoundMatch(d, filterKey, operator) ==
  LET conditions == Get(d, filterKey) IN
  IF NonEmptyArray(conditions)
    THEN Done(Delete(d, filterKey), <<Match(<<operator>>, conditions)>>, {filterKey})
    ELSE Done(d, <<>>, {})

addOrMatch(d) == compoundMatch(d, <<"or">>, "$or")
addOrMatchWithPrefix(d, prefix) == compoundMatch(d, Sfx(prefix, <<"or">>), "$or")
addAndMatch(d) == compoundMatch(d, <<"and">>, "$and")

----------------------------------------------------------------------------
(* LookupHelper and LookupStrictHelper.  A missing push callback is        *)
(* hasPush = FALSE; the stages go to whoever supplied the callback.        *)

LookupStage(collection, matchStagesArg, localField, foreignField, asName, uniqueForeignId) ==
  [s |-> "$lookup", from |-> collection, localField |-> localField,
   foreignField |-> foreignField,
   foreign_id |-> IF Truthy(uniqueForeignId) THEN uniqueForeignId ELSE Str("$_id"),
   as |-> asName, pipeline |-> matchStagesArg]

\* { $unwind: { path: `$${asName}`, preserveNullAndEmptyArrays: false } }
UnwindPath(asName) ==
  [s |-> "$unwind", path |-> [t |-> "string", dollar |-> asName],
   preserveNullAndEmptyArrays |-> FALSE]

addLookupFromOtherCollection(collection, stages, localField, foreignField, asName, id, hasPush) ==
  IF Truthy(collection) /\ hasPush
    THEN <<LookupStage(collection, stages, localField, foreignField,
                       IF asName = Undefined THEN Str("looked_up") ELSE asName,
                       id)>>
    ELSE <<>>

\* The strict helper without its $unwind stage.
addStrictLookupNoUnwind(collection, stages, localField, foreignField, asName, id, has) ==
  LET name == IF asName = Undefined THEN [t |-> "string", lookedUp |-> collection] ELSE asName IN
  IF Truthy(collection) /\ has
    THEN <<LookupStage(collection, stages, localField, foreignField, name, id)>>
    ELSE <<>>

addStrictLookupFromOtherCollection(collection, stages, localField, foreignField, asName, id, has) ==
  LET name == IF asName = Undefined THEN [t |-> "string", lookedUp |-> collection] ELSE asName IN
  IF Truthy(collection) /\ has
    THEN <<LookupStage(collection, stages, localField, foreignField, name,
                       id),
           UnwindPath(name)>>
    ELSE <<>>

----------------------------------------------------------------------------
(* FilterStageBuilder: the methods with a body of their own.               *)

\* addBooleanValueMatch coercing a text that is neither "true" nor "false"
\* by truthiness instead of returning.
addBooleanValueMatchTruthyText(d, field, value) ==
  LET filterValue == IF value # Undefined THEN value ELSE Get(d, field)
      emit(boolValue) ==
        Done(IF value = Undefined THEN Delete(d, field) ELSE d,
             <<Match(field, Bool(boolValue))>>,
             IF value = Undefined THEN {field} ELSE {}) IN
  IF filterValue = Undefined \/ filterValue = Str("") THEN Done(d, <<>>, {})
  ELSE IF typeof(filterValue) = "string"
    THEN (IF toLowerCase(filterValue.s) = "true" THEN emit(TRUE)
          ELSE IF toLowerCase(filterValue.s) = "false" THEN emit(FALSE)
          ELSE emit(Truthy(filterValue)))
  ELSE IF typeof(filterValue) = "boolean" THEN emit(filterValue.b)
  ELSE emit(Truthy(filterValue))

addBooleanValueMatch(d, field, value) ==
  LET filterValue == IF value # Undefined THEN value ELSE Get(d, field)
      emit(boolValue) ==
        Done(IF value = Undefined THEN Delete(d, field) ELSE d,
             <<Match(field, Bool(boolValue))>>,
             IF value = Undefined THEN {field} ELSE {}) IN
  IF filterValue = Undefined \/ filterValue = Str("") THEN Done(d, <<>>, {})
  ELSE IF typeof(filterValue) = "string"
    THEN (IF toLowerCase(filterValue.s) = "true" THEN emit(TRUE)
          ELSE IF toLowerCase(filterValue.s) = "false" THEN emit(FALSE)
          ELSE Done(d, <<>>, {}))
  ELSE IF typeof(filterValue) = "boolean" THEN emit(filterValue.b)
  ELSE emit(Truthy(filterValue))

\* filterKey is Undefined or FieldName(key); the empty string is falsy.
\* addFieldExists gated by field-exists also when no filterKey is given.
addFieldExistsGated(d, field, shouldExist, filterKey) ==
  LET given == filterKey # Undefined
      keyToCheck == IF given /\ filterKey.key # <<"">>
                      THEN filterKey.key ELSE Sfx(field, <<"exists">>)
      filterValue == Get(d, keyToCheck)
      emits == IsTrueFlag(filterValue) IN
  Done(IF given \/ filterValue # Undefined THEN Delete(d, keyToCheck) ELSE d,
       IF emits THEN <<Match(field, Ops(<<Op("$exists", Bool(shouldExist))>>))>> ELSE <<>>,
       IF emits /\ filterValue # Undefined THEN {keyToCheck} ELSE {})

addFieldExists(d, field, shouldExist, filterKey) ==
  LET given == filterKey # Undefined
      keyToCheck == IF given /\ filterKey.key # <<"">>
                      THEN filterKey.key ELSE Sfx(field, <<"exists">>)
      filterValue == Get(d, keyToCheck)
      emits == ~given \/ IsTrueFlag(filterValue) IN
  Done(IF given \/ filterValue # Undefined THEN Delete(d, keyToCheck) ELSE d,
       IF emits THEN <<Match(field, Ops(<<Op("$exists", Bool(shouldExist))>>))>> ELSE <<>>,
       IF emits /\ filterValue # Undefined THEN {keyToCheck} ELSE {})

EnumKeys(d) == [i \in 1..Len(d) |-> d[i].k]

ReservedBareKeys ==
  {<<"or">>, <<"and">>, RangeWithinDate, RangeWithinTime, <<"notnull">>, <<"exists">>}

\* One turn of the loop of applyDefaultFilters; st.query is filterQuery.
applyDefaultStep(st, key) ==
  LET value == Get(st.filters, key) IN
  IF Present(value) THEN [st EXCEPT !.query = Put(st.query, key, value)] ELSE st

\* for (const key in this.filters) ...: the keys are enumerated in insertion
\* order; a key deleted before it is reached is not visited.
RECURSIVE applyDefaultLoop(_, _)
applyDefaultLoop(keys, st) ==
  IF keys = <<>> THEN st
  ELSE applyDefaultLoop(Tail(keys),
         IF Has(st.filters, Head(keys)) THEN applyDefaultStep(st, Head(keys)) ELSE st)

\* applyDefaultFilters copying every entry, blank or not.
applyDefaultFiltersAll(d, query) ==
  LET RECURSIVE copy(_, _)
      copy(i, q) == IF i > Len(d) THEN q ELSE copy(i + 1, Put(q, d[i].k, d[i].v)) IN
  copy(1, query)

applyDefaultFilters(d, query) ==
  applyDefaultLoop(EnumKeys(d), [filters |-> d, query |-> query]).query

\* buildStep deleting only the keys it has swept into a stage
buildStepKeepsUnswept(st, key) ==
  LET value == Get(st.filters, key)
      swept == /\ Present(value)
               /\ ~HasSeparator(key)
               /\ key \notin ReservedBareKeys IN
  [filters |-> IF swept THEN Delete(st.filters, key) ELSE st.filters,
   push |-> IF swept THEN Append(st.push, Match(key, value)) ELSE st.push]

\* buildStep sweeping a key whatever its segments
buildStepAnyKey(st, key) ==
  LET value == Get(st.filters, key)
      swept == /\ Present(value)
               /\ key \notin ReservedBareKeys IN
  [filters |-> Delete(st.filters, key),
   push |-> IF swept THEN Append(st.push, Match(key, value)) ELSE st.push]

\* buildStep leaving the keys it has swept in the dictionary
buildStepKeepsSwept(st, key) ==
  LET value == Get(st.filters, key)
      swept == /\ Present(value)
               /\ ~HasSeparator(key)
               /\ key \notin ReservedBareKeys IN
  [filters |-> IF swept THEN st.filters ELSE Delete(st.filters, key),
   push |-> IF swept THEN Append(st.push, Match(key, value)) ELSE st.push]

\* One turn of the loop of build(): st.push collects the stages pushed.
buildStep(st, key) ==
  LET value == Get(st.filters, key)
      swept == /\ Present(value)
               /\ ~HasSeparator(key)
               /\ key \notin ReservedBareKeys IN
  [filters |-> Delete(st.filters, key),
   push |-> IF swept THEN Append(st.push, Match(key, value)) ELSE st.push]

RECURSIVE buildLoop(_, _)
buildLoop(keys, st) ==
  IF keys = <<>> THEN st
  ELSE buildLoop(Tail(keys),
         IF Has(st.filters, Head(keys)) THEN buildStep(st, Head(keys)) ELSE st)

build(d) == buildLoop(EnumKeys(d), [filters |-> d, push |-> <<>>])

----------------------------------------------------------------------------
(* Inputs.                                                                 *)

A == <<"a">>
Fields == {A}

CondArray == Arr(<<Str("abc")>>)
IdArray == Arr(<<Str(ValidHex), Str("abc")>>)
IdArrayOfThree == Arr(<<Str(OtherHex), Str("abc"), Str(ValidHex)>>)

\* The values a caller may store under a bare field name.
Values ==
  {Undefined, Null, Str(""), Str("abc"), Str("30"), Str("true"), Str("TRUE"), Str("false"),
   Str("False"), Str("a.b"), Str(IsoDay), Str(ValidHex),
   Num(30), Num(0), Bool(TRUE), Bool(FALSE), Arr(<<>>), IdArray, DateOf(DayMs + HourMs),
   NoPrimitive}

\* The values stored under the keys of each family of suffixes.
FlagValues == {Bool(TRUE), Str("true"), Bool(FALSE), Str("false"), Null}
CompareValues == {Null, Str(""), Str("30"), Num(0)}
DateValues == {Null, Str(""), Str(IsoDay), Str("abc"), Str("30")}
TimeValues == {Null, Str(""), Str(IsoDayTime), Str("10:30:00")}
ArrayValues == {Null, Str(""), Str("abc"), Arr(<<>>), IdArray, IdArrayOfThree}
CompoundValues == {Null, Str("abc"), Arr(<<>>), CondArray}

FlagSuffixes == {<<"isnull">>, <<"notnull">>, <<"true">>, <<"false">>, <<"exists">>,
                 <<"nt", "empty">>}
CompareSuffixes == {<<"not">>, <<"gt">>, <<"lt">>, <<"gte">>, <<"lte">>}
DateSuffixes == {<<"from">>, <<"to">>, <<"gtDate">>, <<"gteDate">>, <<"ltDate">>, <<"lteDate">>}
TimeSuffixes == {<<"time", "from">>, <<"time", "to">>}
ArraySuffixes == {<<"in">>, <<"nin">>}

Entry(k, v) == [k |-> k, v |-> v]

Family(suffixes, values) ==
  {<<Entry(Sfx(f, x), v)>> : f \in Fields, x \in suffixes, v \in values}

\* Dictionaries of one entry.
OneEntry ==
  {<<Entry(f, v)>> : f \in Fields, v \in Values}
  \cup Family(FlagSuffixes, FlagValues)
  \cup Family(CompareSuffixes, CompareValues)
  \cup Family(DateSuffixes, DateValues)
  \cup Family(TimeSuffixes, TimeValues)
  \cup Family(ArraySuffixes, ArrayValues)
  \cup Family({<<"or">>}, CompoundValues)
  \cup {<<Entry(k, v)>> : k \in {<<"or">>, <<"and">>}, v \in CompoundValues}
  \cup {<<Entry(k, v)>> : k \in {RangeWithinDate, RangeWithinTime}, v \in FlagValues}
  \cup {<<Entry(k, v)>> : k \in {DeletedAt, <<"notnull">>, <<"exists">>, Sfx(A, <<"unknown">>)},
                          v \in {Null, Str("abc")}}

\* Dictionaries of the keys that one rule reads together.
Pairs(k1, values1, k2, values2) ==
  {<<Entry(k1, v1), Entry(k2, v2)>> : v1 \in values1, v2 \in values2}

Together ==
  Pairs(Sfx(A, <<"from">>), {Null, Str(IsoDay), Str("abc")},
        Sfx(A, <<"to">>), {Str(""), Str(IsoDay), Str("abc")})
  \cup Pairs(Sfx(A, <<"true">>), {Bool(TRUE), Str("false")},
             Sfx(A, <<"false">>), {Str("true"), Bool(FALSE)})
  \cup Pairs(Sfx(A, <<"time", "to">>), {Str(IsoDayTime), Str("abc")},
             Sfx(A, <<"time", "from">>), {Str(IsoDayTime)})
  \cup {<<Entry(RangeWithinDate, g), Entry(Sfx(A, <<"from">>), v), Entry(Sfx(A, <<"to">>), w)>> :
          g \in {Bool(TRUE), Str("false")}, v \in {Str(IsoDay)}, w \in {Str(IsoDay), Str("abc")}}

\* Dictionaries that mix bare, suffixed and reserved keys.
Mixed ==
  {<<Entry(A, Str("abc")), Entry(Sfx(A, <<"unknown">>), Str("abc")), Entry(<<"b">>, Num(30))>>,
   <<Entry(<<"or">>, Str("abc")), Entry(<<"b">>, Null), Entry(A, Str("30"))>>,
   <<Entry(<<"exists">>, Bool(TRUE)), Entry(A, Str("")), Entry(<<"b">>, Bool(FALSE))>>,
   <<Entry(Sfx(A, <<"in">>), IdArray), Entry(A, Str(ValidHex))>>}

\* The dictionaries a builder is constructed with.
InitialFilters == {<<>>} \cup OneEntry \cup Together \cup Mixed

\* Arguments of the rule calls.
StringArgs == {Undefined, Str("x")}
NumberArgs == {Undefined, Num(5)}
BooleanArgs == {Undefined, Bool(FALSE)}
DateArgs == {Undefined, DateOf(HourMs)}
StaticValues == {Undefined, Arr(<<Str(ValidHex), Str("x")>>)}
FilterKeyArgs == {Undefined, FieldName(<<"">>), FieldName(Sfx(A, <<"exists">>))}
RegexOptions == {Undefined, Str("m")}
TimeStrArgs == {Undefined, Str("10:30:00"), Str(IsoDayTime)}
Clock == {DayMs + HourMs, 2 * DayMs + 2 * HourMs + 1}

----------------------------------------------------------------------------
(* FilterStageBuilder: the state machine.                                  *)

NoApb ==
  /\ pipeline = <<>>
  /\ apbFilters = <<>>
  /\ callerFilters = <<>>
  /\ apbRet = <<>>
  /\ callLog = <<>>
  /\ contrib = <<>>
  /\ builtAfter = 0

\* new FilterStageBuilder(filters)
Init ==
  /\ filters \in InitialFilters
  /\ initFilters = filters
  /\ matchStages = <<>>
  /\ filterQuery = <<>>
  /\ timezone = "UTC"
  /\ queryRet = <<>>
  /\ builds = 0
  /\ ret = <<>>
  /\ origin = <<>>
  /\ NoApb

\* a stage put in front of the stages already there
pushMatchStageInFront(stages, pushed) == pushed \o stages

\* this.matchStages.push(stage), for the stages a call hands over, in order
pushMatchStage(stages, pushed) == stages \o pushed

\* A rule call: the helper's stages go through pushMatchStage.
Call(r, by) ==
  /\ filters' = r.filters
  /\ matchStages' = pushMatchStage(matchStages, r.push)
  /\ origin' = origin \o [i \in 1..Len(r.push) |-> [by |-> by, src |-> r.src]]
  /\ UNCHANGED <<filterQuery, timezone, queryRet, builds, ret, initFilters>>
  /\ UNCHANGED apbVars

\* A call that emits whatever the dictionary holds is taken only while
\* there is room.
Room == Len(matchStages) < MaxStages

SetTimezone ==
  \E zone \in Timezones :
    /\ timezone' = zone
    /\ UNCHANGED <<filters, matchStages, filterQuery, queryRet, builds, ret, origin, initFilters>>
    /\ UNCHANGED apbVars

ApplyDefaultFilters ==
  /\ filterQuery' = applyDefaultFilters(filters, filterQuery)
  /\ UNCHANGED <<filters, matchStages, timezone, queryRet, builds, ret, origin, initFilters>>
  /\ UNCHANGED apbVars

\* getFilterQuery(): return { ...this.filterQuery }
GetFilterQuery ==
  /\ queryRet' = filterQuery
  /\ UNCHANGED <<filters, matchStages, filterQuery, timezone, builds, ret, origin, initFilters>>
  /\ UNCHANGED apbVars

AddStringMatch ==
  \E field \in Fields, value \in StringArgs :
    /\ value # Undefined => Room
    /\ Call(addStringMatch(filters, field, value), "addStringMatch")

AddNumberMatch ==
  \E field \in Fields, value \in NumberArgs :
    /\ value # Undefined => Room
    /\ Call(addNumberMatch(filters, field, value), "addNumberMatch")

AddBooleanValueMatch ==
  \E field \in Fields, value \in BooleanArgs :
    /\ value # Undefined => Room
    /\ Call(addBooleanValueMatch(filters, field, value), "addBooleanValueMatch")

AddDateMatch ==
  \E field \in Fields, value \in DateArgs, legacy \in Legacy :
    /\ value # Undefined => Room
    /\ Call(addDateMatch(filters, field, timezone, value, legacy), "addDateMatch")

AddDateRangeMatch ==
  \E field \in Fields, legacy \in Legacy :
    Call(addDateRangeMatch(filters, field, timezone, legacy), "addDateRangeMatch")

AddGreaterThanDateMatch ==
  \E field \in Fields, legacy \in Legacy :
    Call(addGreaterThanDateMatch(filters, field, timezone, legacy), "addGreaterThanDateMatch")

AddGreaterThanOrEqualDateMatch ==
  \E field \in Fields, legacy \in Legacy :
    Call(addGreaterThanOrEqualDateMatch(filters, field, timezone, legacy),
         "addGreaterThanOrEqualDateMatch")

AddLessThanDateMatch ==
  \E field \in Fields, legacy \in Legacy :
    Call(addLessThanDateMatch(filters, field, timezone, legacy), "addLessThanDateMatch")

AddLessThanOrEqualDateMatch ==
  \E field \in Fields, legacy \in Legacy :
    Call(addLessThanOrEqualDateMatch(filters, field, timezone, legacy),
         "addLessThanOrEqualDateMatch")

AddFieldExists ==
  \E field \in Fields, shouldExist \in BOOLEAN, filterKey \in FilterKeyArgs :
    /\ filterKey = Undefined => Room
    /\ Call(addFieldExists(filters, field, shouldExist, filterKey), "addFieldExists")

AddRegexMatch ==
  \E field \in Fields, options \in RegexOptions :
    Call(addRegexMatch(filters, field, options), "addRegexMatch")

AddInMatch ==
  \E field \in Fields, staticValues \in StaticValues :
    /\ staticValues # Undefined => Room
    /\ Call(addInMatch(filters, field, staticValues), "addInMatch")

AddInMatchWithObjectIds ==
  \E field \in Fields, staticValues \in StaticValues :
    /\ staticValues # Undefined => Room
    /\ Call(addInMatchWithObjectIds(filters, field, staticValues), "addInMatchWithObjectIds")

AddObjectIdMatch ==
  \E field \in Fields :
    Call(addObjectIdMatch(filters, field), "addObjectIdMatch")

AddObjectIdsMatch ==
  \E field \in Fields :
    Call(addObjectIdsMatch(filters, field), "addObjectIdsMatch")

AddNotInMatch ==
  \E field \in Fields, staticValues \in StaticValues :
    /\ staticValues # Undefined => Room
    /\ Call(addNotInMatch(filters, field, staticValues), "addNotInMatch")

AddArrayNotEmptyMatch ==
  \E field \in Fields :
    Call(addArrayNotEmptyMatch(filters, field), "addArrayNotEmptyMatch")

AddNotDeleted ==
  /\ Room
  /\ Call(addNotDeleted(filters), "addNotDeleted")

AddNullMatch ==
  \E field \in Fields :
    Call(addNullMatch(filters, field), "addNullMatch")

AddNotNullMatch ==
  \E field \in Fields :
    Call(addNotNullMatch(filters, field), "addNotNullMatch")

AddNotEqualMatch ==
  \E field \in Fields :
    Call(addNotEqualMatch(filters, field), "addNotEqualMatch")

AddRangeMatch ==
  \E field \in Fields :
    Call(addRangeMatch(filters, field), "addRangeMatch")

FallWithinDateRange ==
  \E startField \in Fields, endField \in Fields, clock \in Clock :
    Call(fallWithinDateRange(filters, startField, endField, timezone, clock),
         "fallWithinDateRange")

FallWithinTimeRange ==
  \E startField \in Fields, endField \in Fields, timeStr \in TimeStrArgs,
     clock \in Clock, legacy \in Legacy :
    Call(fallWithinTimeRange(filters, startField, endField, timezone, timeStr, clock, legacy),
         "fallWithinTimeRange")

AddBooleanMatch ==
  \E field \in Fields :
    Call(addBooleanMatch(filters, field), "addBooleanMatch")

AddExistsMatch ==
  \E field \in Fields :
    Call(addExistsMatch(filters, field), "addExistsMatch")

AddOrMatch == Call(addOrMatch(filters), "addOrMatch")

AddOrMatchWithPrefix ==
  \E prefix \in Fields :
    Call(addOrMatchWithPrefix(filters, prefix), "addOrMatchWithPrefix")

AddAndMatch == Call(addAndMatch(filters), "addAndMatch")

AddTimeRangeMatch ==
  \E field1 \in Fields, field2 \in Fields, legacy \in Legacy :
    Call(addTimeRangeMatch(filters, field1, field2, timezone, legacy), "addTimeRangeMatch")

AddFieldsDateRangeMatch ==
  \E startField \in Fields, endField \in Fields, legacy \in Legacy :
    Call(addFieldsDateRangeMatch(filters, startField, endField, timezone, legacy),
         "addFieldsDateRangeMatch")

\* FilterStageBuilder.addLookupFromOtherCollection always passes its push.
AddLookupFromOtherCollection ==
  \E collection \in {Str(""), Str("orders")}, asName \in {Undefined} :
    /\ Room
    /\ Call(Done(filters,
                 addLookupFromOtherCollection(collection, <<>>, Str("userId"), Str("_id"),
                                              asName, Undefined, TRUE),
                 {}),
            "addLookupFromOtherCollection")

Build ==
  /\ builds < MaxBuilds
  /\ LET r == build(filters) IN
       /\ filters' = r.filters
       /\ matchStages' = pushMatchStage(matchStages, r.push)
       /\ origin' = origin \o [i \in 1..Len(r.push) |-> [by |-> "build", src |-> {r.push[i].f}]]
       /\ ret' = matchStages'
  /\ builds' = builds + 1
  /\ UNCHANGED <<filterQuery, timezone, queryRet, initFilters>>
  /\ UNCHANGED apbVars

Rule ==
  \/ AddStringMatch
  \/ AddNumberMatch
  \/ AddBooleanValueMatch
  \/ AddDateMatch
  \/ AddDateRangeMatch
  \/ AddGreaterThanDateMatch
  \/ AddGreaterThanOrEqualDateMatch
  \/ AddLessThanDateMatch
  \/ AddLessThanOrEqualDateMatch
  \/ AddFieldExists
  \/ AddRegexMatch
  \/ AddInMatch
  \/ AddInMatchWithObjectIds
  \/ AddObjectIdMatch
  \/ AddObjectIdsMatch
  \/ AddNotInMatch
  \/ AddArrayNotEmptyMatch
  \/ AddNotDeleted
  \/ AddNullMatch
  \/ AddNotNullMatch
  \/ AddNotEqualMatch
  \/ AddRangeMatch
  \/ FallWithinDateRange
  \/ FallWithinTimeRange
  \/ AddBooleanMatch
  \/ AddExistsMatch
  \/ AddOrMatch
  \/ AddOrMatchWithPrefix
  \/ AddAndMatch
  \/ AddTimeRangeMatch
  \/ AddFieldsDateRangeMatch
  \/ AddLookupFromOtherCollection

\* Every operation of FilterStageBuilder.
Next ==
  \/ SetTimezone
  \/ ApplyDefaultFilters
  \/ GetFilterQuery
  \/ Rule
  \/ Build

Spec == Init /\ [][Next]_vars

\* The rule calls and build() alone.  setTimezone, applyDefaultFilters and
\* getFilterQuery write timezone, filterQuery and queryRet only; no rule
\* reads filterQuery, and the time zone moves the dates a rule emits, not
\* what it consumes or whether it emits.
NextRules ==
  \/ Rule
  \/ Build

SpecRules == Init /\ [][NextRules]_vars

----------------------------------------------------------------------------
(* Properties of FilterStageBuilder.                                       *)

IsPrefix(s, t) == Len(s) <= Len(t) /\ SubSeq(t, 1, Len(s)) = s
Suffix(s, t) == SubSeq(t, Len(s) + 1, Len(t))

\* C1: once build() has returned, the dictionary has no keys at all.
C1_BuildDrainsDictionary == builds >= 1 => Keys(filters) = {}

\* build() has run on a dictionary of three keys, one of them swept.
C1_Witness ==
  /\ builds = 1
  /\ Len(initFilters) = 3
  /\ filters = <<>>
  /\ \E i \in DOMAIN origin : origin[i].by = "build"

\* The entries build() is to sweep: value not undefined, null or "", key
\* without '-' and not one of the six reserved names.
SweptEntry(e) ==
  /\ e.v \notin {Undefined, Null, Str("")}
  /\ Len(e.k) = 1
  /\ e.k[1] \notin {"or", "and", "range-within-date", "range-within-time", "notnull", "exists"}

SweepOf(d) ==
  LET kept == SelectSeq(d, SweptEntry) IN
  [i \in 1..Len(kept) |-> Match(kept[i].k, kept[i].v)]

\* C2: build() appends one bare equality stage for exactly the remaining
\* keys whose value is not undefined, null or "", that hold no '-' and are
\* not a reserved name, and it deletes every remaining key.
C2_DefaultSweep ==
  [][builds' = builds + 1 =>
       /\ Suffix(matchStages, matchStages') = SweepOf(filters)
       /\ filters' = <<>>]_vars

\* build() has swept one key of three: the other two were deleted unswept.
C2_Witness ==
  /\ builds = 1
  /\ Len(initFilters) = 3
  /\ Len(matchStages) = 1
  /\ origin[1].by = "build"
  /\ filters = <<>>

\* C3: a build() that follows a build() with nothing pushed in between
\* returns the sequence the first one returned.
C3_BuildTwice ==
  [][(builds' = builds + 1 /\ builds >= 1 /\ ret = matchStages) => ret' = ret]_vars

\* build() has run twice and returned a swept stage both times.
C3_Witness ==
  /\ builds = 2
  /\ ret = matchStages
  /\ \E i \in DOMAIN origin : origin[i].by = "build"

\* C4: the value under one key is the source of at most one stage, whether
\* the stages come from one rule, from different rules or from the sweep.
C4_NoKeyConsumedTwice ==
  \A i \in DOMAIN origin, j \in DOMAIN origin :
    i # j => origin[i].src \cap origin[j].src = {}

\* Two stages, each from a key of the dictionary, and both keys are gone.
C4_Witness ==
  /\ Len(origin) >= 2
  /\ origin[1].src # {}
  /\ origin[2].src # {}
  /\ origin[1].by # origin[2].by
  /\ \A k \in origin[1].src \cup origin[2].src : ~Has(filters, k)

\* C8: every call leaves the stages already there as they are; a rule call
\* appends at most one stage after them, and build() returns them followed
\* by the stages of its sweep.
C8_AppendOnly ==
  [][/\ IsPrefix(matchStages, matchStages')
     /\ builds' = builds => Len(matchStages') <= Len(matchStages) + 1
     /\ builds' = builds + 1 =>
          /\ ret' = matchStages'
          /\ \A i \in DOMAIN origin' :
               i > Len(matchStages) <=> origin'[i].by = "build" /\ i > Len(origin)]_vars

\* A rule's stage, then a second rule's stage, then a swept stage.
C8_Witness ==
  /\ builds = 1
  /\ Len(ret) = 3
  /\ origin[1].by # "build"
  /\ origin[2].by \notin {"build", origin[1].by}
  /\ origin[3].by = "build"
  /\ matchStages[1] # matchStages[2]

\* Every rule that reads the dictionary d, called without an override: the
\* method (by), the key or keys it reads (keys) and what the call comes to (r).
Read(by, r, keys) == [by |-> by, r |-> r, keys |-> keys]

ReadsOf(d, zone) ==
  UNION {
    {Read("addStringMatch", addStringMatch(d, f, Undefined), {f}),
     Read("addNumberMatch", addNumberMatch(d, f, Undefined), {f}),
     Read("addBooleanValueMatch", addBooleanValueMatch(d, f, Undefined), {f}),
     Read("addRegexMatch", addRegexMatch(d, f, Str("i")), {f}),
     Read("addObjectIdMatch", addObjectIdMatch(d, f), {f}),
     Read("addObjectIdsMatch", addObjectIdsMatch(d, f), {f}),
     Read("addNotEqualMatch", addNotEqualMatch(d, f), {Sfx(f, <<"not">>)}),
     Read("addRangeMatch", addRangeMatch(d, f), {Sfx(f, <<"from">>), Sfx(f, <<"to">>)}),
     Read("addInMatch", addInMatch(d, f, Undefined), {Sfx(f, <<"in">>)}),
     Read("addInMatchWithObjectIds", addInMatchWithObjectIds(d, f, Undefined), {Sfx(f, <<"in">>)}),
     Read("addNotInMatch", addNotInMatch(d, f, Undefined), {Sfx(f, <<"nin">>)}),
     Read("addArrayNotEmptyMatch", addArrayNotEmptyMatch(d, f), {Sfx(f, <<"nt", "empty">>)}),
     Read("addNullMatch", addNullMatch(d, f), {Sfx(f, <<"isnull">>)}),
     Read("addNotNullMatch", addNotNullMatch(d, f), {Sfx(f, <<"notnull">>)}),
     Read("addBooleanMatch", addBooleanMatch(d, f), {Sfx(f, <<"true">>), Sfx(f, <<"false">>)}),
     Read("addExistsMatch", addExistsMatch(d, f), {Sfx(f, <<"exists">>)}),
     Read("addFieldExists", addFieldExists(d, f, TRUE, FieldName(Sfx(f, <<"exists">>))),
          {Sfx(f, <<"exists">>)}),
     Read("addOrMatchWithPrefix", addOrMatchWithPrefix(d, f), {Sfx(f, <<"or">>)}),
     Read("addOrMatch", addOrMatch(d), {<<"or">>}),
     Read("addAndMatch", addAndMatch(d), {<<"and">>})}
    \cup UNION {
      {Read("addDateMatch", addDateMatch(d, f, zone, Undefined, legacy), {f}),
       Read("addDateRangeMatch", addDateRangeMatch(d, f, zone, legacy),
            {Sfx(f, <<"from">>), Sfx(f, <<"to">>)}),
       Read("addGreaterThanDateMatch", addGreaterThanDateMatch(d, f, zone, legacy),
            {Sfx(f, <<"gtDate">>)}),
       Read("addGreaterThanOrEqualDateMatch", addGreaterThanOrEqualDateMatch(d, f, zone, legacy),
            {Sfx(f, <<"gteDate">>)}),
       Read("addLessThanDateMatch", addLessThanDateMatch(d, f, zone, legacy),
            {Sfx(f, <<"ltDate">>)}),
       Read("addLessThanOrEqualDateMatch", addLessThanOrEqualDateMatch(d, f, zone, legacy),
            {Sfx(f, <<"lteDate">>)}),
       Read("addTimeRangeMatch", addTimeRangeMatch(d, f, f, zone, legacy),
            {Sfx(f, <<"time", "from">>), Sfx(f, <<"time", "to">>)}),
       Read("addFieldsDateRangeMatch", addFieldsDateRangeMatch(d, f, f, zone, legacy),
            {RangeWithinDate, Sfx(f, <<"from">>), Sfx(f, <<"to">>)})} : legacy \in Legacy}
    \cup UNION {
      {Read("fallWithinDateRange", fallWithinDateRange(d, f, f, zone, clock), {RangeWithinDate}),
       Read("fallWithinTimeRange",
            fallWithinTimeRange(d, f, f, zone, Undefined, clock, InvalidDate),
            {RangeWithinTime})} : clock \in Clock}
    : f \in Fields}

\* C5: a rule that reads its value from the dictionary leaves the key or
\* keys it read absent, whether or not it emitted a stage.
C5_ReadKeysDeleted ==
  \A c \in ReadsOf(filters, timezone) : \A k \in c.keys : ~Has(c.r.filters, k)

\* Every rule that takes an override, called on d with one.
Override(by, r) == [by |-> by, r |-> r]

OverridesOf(d, zone) ==
  UNION {
    {Override("addStringMatch", addStringMatch(d, f, Str("x"))),
     Override("addNumberMatch", addNumberMatch(d, f, Num(5))),
     Override("addBooleanValueMatch", addBooleanValueMatch(d, f, Bool(FALSE))),
     Override("addDateMatch", addDateMatch(d, f, zone, DateOf(HourMs), InvalidDate)),
     Override("addInMatch", addInMatch(d, f, Arr(<<Str(ValidHex), Str("x")>>))),
     Override("addInMatchWithObjectIds",
              addInMatchWithObjectIds(d, f, Arr(<<Str(ValidHex), Str("x")>>))),
     Override("addNotInMatch", addNotInMatch(d, f, Arr(<<Str(ValidHex), Str("x")>>)))}
    : f \in Fields}

\* C6: a call of a rule with an explicit override leaves the dictionary
\* exactly as it was.
C6_OverrideLeavesDictionary ==
  [][\A c \in OverridesOf(filters, timezone) : Call(c.r, c.by) => filters' = filters]_vars

Blank(v) == v \in {Undefined, Null, Str("")}

\* C7: a call of a rule whose value (every value it reads) is absent, null
\* or the empty string emits no stage.
C7_BlankEmitsNothing ==
  [][\A c \in ReadsOf(filters, timezone) :
       ((\A k \in c.keys : Blank(Get(filters, k))) /\ Call(c.r, c.by))
         => matchStages' = matchStages]_vars

----------------------------------------------------------------------------
(* A callback handed to AggregationPipelineBuilder.match is a sequence of  *)
(* calls on the FilterStageBuilder it receives; a call is a record naming  *)
(* the method (m) and its arguments.                                       *)

\* The builder b = [filters, matchStages, timezone] after helper result r.
Pushed(b, r) ==
  [b EXCEPT !.filters = r.filters, !.matchStages = pushMatchStage(b.matchStages, r.push)]

invoke(b, c, clock, legacy) ==
  LET d == b.filters
      zone == b.timezone IN
  CASE c.m = "setTimezone" -> [b EXCEPT !.timezone = c.zone]
    [] c.m = "addStringMatch" -> Pushed(b, addStringMatch(d, c.field, c.value))
    [] c.m = "addNumberMatch" -> Pushed(b, addNumberMatch(d, c.field, c.value))
    [] c.m = "addBooleanValueMatch" -> Pushed(b, addBooleanValueMatch(d, c.field, c.value))
    [] c.m = "addDateMatch" -> Pushed(b, addDateMatch(d, c.field, zone, c.value, legacy))
    [] c.m = "addDateRangeMatch" -> Pushed(b, addDateRangeMatch(d, c.field, zone, legacy))
    [] c.m = "addGreaterThanDateMatch" ->
         Pushed(b, addGreaterThanDateMatch(d, c.field, zone, legacy))
    [] c.m = "addGreaterThanOrEqualDateMatch" ->
         Pushed(b, addGreaterThanOrEqualDateMatch(d, c.field, zone, legacy))
    [] c.m = "addLessThanDateMatch" -> Pushed(b, addLessThanDateMatch(d, c.field, zone, legacy))
    [] c.m = "addLessThanOrEqualDateMatch" ->
         Pushed(b, addLessThanOrEqualDateMatch(d, c.field, zone, legacy))
    [] c.m = "addFieldExists" ->
         Pushed(b, addFieldExists(d, c.field, c.shouldExist, c.filterKey))
    [] c.m = "addRegexMatch" -> Pushed(b, addRegexMatch(d, c.field, c.options))
    [] c.m = "addInMatch" -> Pushed(b, addInMatch(d, c.field, c.staticValues))
    [] c.m = "addInMatchWithObjectIds" ->
         Pushed(b, addInMatchWithObjectIds(d, c.field, c.staticValues))
    [] c.m = "addObjectIdMatch" -> Pushed(b, addObjectIdMatch(d, c.field))
    [] c.m = "addObjectIdsMatch" -> Pushed(b, addObjectIdsMatch(d, c.field))
    [] c.m = "addNotInMatch" -> Pushed(b, addNotInMatch(d, c.field, c.staticValues))
    [] c.m = "addArrayNotEmptyMatch" -> Pushed(b, addArrayNotEmptyMatch(d, c.field))
    [] c.m = "addNotDeleted" -> Pushed(b, addNotDeleted(d))
    [] c.m = "addNullMatch" -> Pushed(b, addNullMatch(d, c.field))
    [] c.m = "addNotNullMatch" -> Pushed(b, addNotNullMatch(d, c.field))
    [] c.m = "addNotEqualMatch" -> Pushed(b, addNotEqualMatch(d, c.field))
    [] c.m = "addRangeMatch" -> Pushed(b, addRangeMatch(d, c.field))
    [] c.m = "fallWithinDateRange" ->
         Pushed(b, fallWithinDateRange(d, c.startField, c.endField, zone, clock))
    [] c.m = "fallWithinTimeRange" ->
         Pushed(b, fallWithinTimeRange(d, c.startField, c.endField, zone, c.timeStr,
                                       clock, legacy))
    [] c.m = "addBooleanMatch" -> Pushed(b, addBooleanMatch(d, c.field))
    [] c.m = "addExistsMatch" -> Pushed(b, addExistsMatch(d, c.field))
    [] c.m = "addOrMatch" -> Pushed(b, addOrMatch(d))
    [] c.m = "addOrMatchWithPrefix" -> Pushed(b, addOrMatchWithPrefix(d, c.prefix))
    [] c.m = "addAndMatch" -> Pushed(b, addAndMatch(d))
    [] c.m = "addTimeRangeMatch" ->
         Pushed(b, addTimeRangeMatch(d, c.field1, c.field2, zone, legacy))
    [] c.m = "addFieldsDateRangeMatch" ->
         Pushed(b, addFieldsDateRangeMatch(d, c.startField, c.endField, zone, legacy))
    [] c.m = "addLookupFromOtherCollection" ->
         Pushed(b, Done(d, addLookupFromOtherCollection(c.collection, c.matchStages,
                                                        c.localField, c.foreignField,
                                                        c.asName, c.uniqueForeignId, TRUE),
                        {}))

RECURSIVE runCallback(_, _, _, _)
runCallback(b, callback, clock, legacy) ==
  IF callback = <<>> THEN b
  ELSE runCallback(invoke(b, Head(callback), clock, legacy), Tail(callback), clock, legacy)

\* new FilterStageBuilder(d)
newBuilder(d) == [filters |-> d, matchStages |-> <<>>, timezone |-> "UTC"]

\* filters(filterBuilder).build(): the builder when build() has returned
builtBy(b, callback, clock, legacy) ==
  LET after == runCallback(b, callback, clock, legacy) IN
  Pushed(after, build(after.filters))

----------------------------------------------------------------------------
(* AggregationPipelineBuilder.                                             *)

Obj(name) == [t |-> "object", o |-> name]
Stage(s, arg) == [s |-> s, arg |-> arg]

\* a push that skips a stage the pipeline already holds
pipelinePushDistinct(p, stages) ==
  p \o SelectSeq(stages, LAMBDA st : \A i \in DOMAIN p : p[i] # st)

\* this.pipeline.push(...stages)
pipelinePush(p, stages) == p \o stages

\* { $match: filters } for a filter object
MatchObject(o) == IF Len(o) = 1 THEN Match(o[1].k, o[1].v) ELSE Stage("$match", o)

\* match(callback) handing this.filters itself to the builder
matchCallbackShared(p, f, callback, clock, legacy) ==
  LET after == builtBy(newBuilder(f), callback, clock, legacy) IN
  [pipeline |-> IF Len(after.matchStages) > 0 THEN p \o after.matchStages ELSE p,
   filters |-> after.filters]

\* match(callback) pushing a $match stage also for a builder that built nothing
matchCallbackAlways(p, f, callback, clock, legacy) ==
  LET stages == builtBy(newBuilder(f), callback, clock, legacy).matchStages IN
  [pipeline |-> IF Len(stages) > 0 THEN p \o stages ELSE p \o <<Stage("$match", <<>>)>>,
   filters |-> f]

\* match(callback): the assembler's pipeline and filters when it returns.
\* The builder works on { ...this.filters }, so what it deletes is gone
\* from the copy only.
matchCallback(p, f, callback, clock, legacy) ==
  LET filterBuilder == newBuilder(f)
      stages == builtBy(filterBuilder, callback, clock, legacy).matchStages IN
  [pipeline |-> IF Len(stages) > 0 THEN pipelinePush(p, stages) ELSE p,
   filters |-> f]

\* match(object)
matchObject(p, o) == pipelinePush(p, <<MatchObject(o)>>)

sort(p, arg) == pipelinePush(p, <<Stage("$sort", arg)>>)
project(p, arg) == pipelinePush(p, <<Stage("$project", arg)>>)
lookup(p, arg) == pipelinePush(p, <<Stage("$lookup", arg)>>)
limit(p, arg) == pipelinePush(p, <<Stage("$limit", arg)>>)
skip(p, arg) == pipelinePush(p, <<Stage("$skip", arg)>>)
group(p, arg) == pipelinePush(p, <<Stage("$group", arg)>>)
unwind(p, field) ==
  IF typeof(field) = "string"
    THEN pipelinePush(p, <<Stage("$unwind", [t |-> "string", dollar |-> field])>>)
    ELSE pipelinePush(p, <<Stage("$unwind", field)>>)
addStage(p, stage) == pipelinePush(p, <<stage>>)
strictLookup(p, collection, matchStagesArg, localField, foreignField, asName, uniqueForeignId) ==
  pipelinePush(p, addStrictLookupFromOtherCollection(collection, matchStagesArg, localField,
                                                     foreignField, asName, uniqueForeignId,
                                                     TRUE))

\* The callbacks handed to match.
B == <<"b">>
CbNone == <<>>
CbExample ==
  <<[m |-> "addStringMatch", field |-> A, value |-> Undefined],
    [m |-> "addNumberMatch", field |-> B, value |-> Undefined],
    [m |-> "addDateRangeMatch", field |-> A]>>
CbReadme ==
  <<[m |-> "addStringMatch", field |-> A, value |-> Undefined],
    [m |-> "addNumberMatch", field |-> B, value |-> Undefined]>>
CbNow ==
  <<[m |-> "fallWithinTimeRange", startField |-> A, endField |-> A, timeStr |-> Undefined]>>
CbToday ==
  <<[m |-> "fallWithinDateRange", startField |-> A, endField |-> A],
    [m |-> "addNotDeleted"]>>
CbStatic ==
  <<[m |-> "addStringMatch", field |-> A, value |-> Str("x")],
    [m |-> "addNotInMatch", field |-> A, staticValues |-> Arr(<<Str("x")>>)],
    [m |-> "addFieldExists", field |-> A, shouldExist |-> TRUE, filterKey |-> Undefined]>>
CbTokyo ==
  <<[m |-> "setTimezone", zone |-> "Asia/Tokyo"],
    [m |-> "addGreaterThanOrEqualDateMatch", field |-> A],
    [m |-> "addDateMatch", field |-> B, value |-> DateOf(HourMs)]>>
CbArrays ==
  <<[m |-> "addInMatch", field |-> A, staticValues |-> Undefined],
    [m |-> "addNotInMatch", field |-> A, staticValues |-> Undefined],
    [m |-> "addObjectIdMatch", field |-> B],
    [m |-> "addOrMatch"],
    [m |-> "addLookupFromOtherCollection", collection |-> Str("orders"),
     matchStages |-> <<>>, localField |-> Str("userId"), foreignField |-> Str("_id"),
     asName |-> Undefined, uniqueForeignId |-> Undefined]>>
Callbacks == {CbNone, CbExample, CbReadme, CbNow, CbToday, CbStatic, CbTokyo, CbArrays}

\* The dictionaries an assembler is constructed with.
PipelineFilters ==
  {<<>>,
   <<Entry(A, Str("abc")), Entry(B, Str("30")), Entry(Sfx(A, <<"gteDate">>), Str(IsoDay))>>,
   <<Entry(RangeWithinTime, Bool(TRUE)), Entry(RangeWithinDate, Str("true")),
     Entry(Sfx(A, <<"nin">>), IdArray), Entry(B, Str(ValidHex))>>}

MatchObjects == {<<>>, <<Entry(A, Str("abc"))>>}
SortArgs == {Obj("createdAt: -1")}
ProjectArgs == {Obj("name: 1")}
LookupArgs == {Obj("from: orders")}
GroupArgs == {Obj("_id: $status")}
LimitArgs == {Num(10)}
SkipArgs == {Num(0)}
UnwindArgs == {Str("orders"), Obj("path: $orders")}
CustomStages == {Stage("$count", Str("total")), Stage("$sort", Obj("createdAt: -1"))}
Collections == {Str(""), Str("orders")}

\* new AggregationPipelineBuilder(filters): this.filters = { ...filters }
InitPipeline ==
  /\ callerFilters \in PipelineFilters
  /\ apbFilters = callerFilters
  /\ pipeline = <<>>
  /\ apbRet = <<>>
  /\ callLog = <<>>
  /\ contrib = <<>>
  /\ builtAfter = 0
  /\ filters = <<>>
  /\ initFilters = <<>>
  /\ matchStages = <<>>
  /\ filterQuery = <<>>
  /\ timezone = "UTC"
  /\ queryRet = <<>>
  /\ builds = 0
  /\ ret = <<>>
  /\ origin = <<>>

\* One call on the assembler: entry describes it, p is the pipeline and f
\* the assembler's filters when it returns, handed the stages it handed over.
Chained(entry, p, f, handed) ==
  /\ Len(callLog) < MaxCalls
  /\ pipeline' = p
  /\ apbFilters' = f
  /\ callLog' = Append(callLog, entry)
  /\ contrib' = contrib \o [i \in 1..Len(handed) |-> [call |-> Len(callLog) + 1,
                                                      stage |-> handed[i]]]
  /\ UNCHANGED <<callerFilters, apbRet, builtAfter>>
  /\ UNCHANGED fsbVars

PipelineMatch ==
  \E callback \in Callbacks, clock \in Clock, legacy \in Legacy :
    LET r == matchCallback(pipeline, apbFilters, callback, clock, legacy) IN
    Chained([m |-> "match", callback |-> callback, clock |-> clock, base |-> apbFilters],
            r.pipeline, r.filters,
            builtBy(newBuilder(apbFilters), callback, clock, legacy).matchStages)

PipelineMatchObject ==
  \E o \in MatchObjects :
    Chained([m |-> "matchObject"], matchObject(pipeline, o), apbFilters, <<MatchObject(o)>>)

PipelineSort ==
  \E arg \in SortArgs :
    Chained([m |-> "sort"], sort(pipeline, arg), apbFilters, <<Stage("$sort", arg)>>)

PipelineProject ==
  \E arg \in ProjectArgs :
    Chained([m |-> "project"], project(pipeline, arg), apbFilters, <<Stage("$project", arg)>>)

PipelineLookup ==
  \E arg \in LookupArgs :
    Chained([m |-> "lookup"], lookup(pipeline, arg), apbFilters, <<Stage("$lookup", arg)>>)

PipelineStrictLookup ==
  \E collection \in Collections :
    Chained([m |-> "strictLookup"],
            strictLookup(pipeline, collection, <<>>, Str("userId"), Str("_id"), Undefined,
                         Undefined),
            apbFilters,
            addStrictLookupFromOtherCollection(collection, <<>>, Str("userId"), Str("_id"),
                                               Undefined, Undefined, TRUE))

PipelineLimit ==
  \E arg \in LimitArgs :
    Chained([m |-> "limit"], limit(pipeline, arg), apbFilters, <<Stage("$limit", arg)>>)

PipelineSkip ==
  \E arg \in SkipArgs :
    Chained([m |-> "skip"], skip(pipeline, arg), apbFilters, <<Stage("$skip", arg)>>)

PipelineGroup ==
  \E arg \in GroupArgs :
    Chained([m |-> "group"], group(pipeline, arg), apbFilters, <<Stage("$group", arg)>>)

PipelineUnwind ==
  \E field \in UnwindArgs :
    Chained([m |-> "unwind"], unwind(pipeline, field), apbFilters,
            <<Stage("$unwind", IF field.t = "string" THEN [t |-> "string", dollar |-> field]
                                                      ELSE field)>>)

PipelineAddStage ==
  \E stage \in CustomStages :
    Chained([m |-> "addStage"], addStage(pipeline, stage), apbFilters, <<stage>>)

\* build(): return this.pipeline
PipelineBuild ==
  /\ apbRet' = pipeline
  /\ builtAfter' = Len(callLog)
  /\ UNCHANGED <<pipeline, apbFilters, callerFilters, callLog, contrib>>
  /\ UNCHANGED fsbVars

NextPipeline ==
  \/ PipelineMatch
  \/ PipelineMatchObject
  \/ PipelineSort
  \/ PipelineProject
  \/ PipelineLookup
  \/ PipelineStrictLookup
  \/ PipelineLimit
  \/ PipelineSkip
  \/ PipelineGroup
  \/ PipelineUnwind
  \/ PipelineAddStage
  \/ PipelineBuild

SpecPipeline == InitPipeline /\ [][NextPipeline]_vars

----------------------------------------------------------------------------
(* Properties of AggregationPipelineBuilder.                               *)

\* The stages of the pipeline that call number n pushed.
StagesOf(n) ==
  LET at == SelectSeq([i \in DOMAIN contrib |-> i],
                      LAMBDA i : contrib[i].call = n /\ i \in DOMAIN pipeline) IN
  [j \in DOMAIN at |-> pipeline[at[j]]]

IsMatch(n) == callLog[n].m = "match"

\* Two match calls with the same callback got the same base filters and
\* appended equal stage sequences.
RepeatedMatchEqual ==
  \A n1 \in DOMAIN callLog, n2 \in DOMAIN callLog :
    (IsMatch(n1) /\ IsMatch(n2) /\ callLog[n1].callback = callLog[n2].callback)
      => /\ callLog[n1].base = callLog[n2].base
         /\ StagesOf(n1) = StagesOf(n2)

\* The same, for two calls that read the same current time.
RepeatedMatchEqualAtSameTime ==
  \A n1 \in DOMAIN callLog, n2 \in DOMAIN callLog :
    (IsMatch(n1) /\ IsMatch(n2) /\ callLog[n1].callback = callLog[n2].callback)
      => /\ callLog[n1].base = callLog[n2].base
         /\ callLog[n1].clock = callLog[n2].clock => StagesOf(n1) = StagesOf(n2)

SingleStageCalls ==
  {"sort", "project", "group", "limit", "skip", "unwind", "lookup", "addStage", "matchObject"}

\* The stages that the calls up to call number n handed over, in order.
HandedUpTo(n) ==
  LET upTo == SelectSeq(contrib, LAMBDA c : c.call <= n) IN
  [i \in DOMAIN upTo |-> upTo[i].stage]

\* C10: the pipeline holds every stage handed over, in call order, none
\* merged, dropped or moved; build() returns just that; and each call of
\* sort, project, group, limit, skip, unwind, lookup, addStage and
\* match(object) has contributed exactly one stage.
C10_PipelineVerbatim ==
  /\ pipeline = HandedUpTo(Len(callLog))
  /\ apbRet = HandedUpTo(builtAfter)
  /\ \A n \in DOMAIN callLog :
       callLog[n].m \in SingleStageCalls => Len(StagesOf(n)) = 1

\* build() has returned a callback's two stages followed by an equal copy of
\* the first, pushed by match(object).
C10_Witness ==
  /\ builtAfter = 2
  /\ IsMatch(1)
  /\ callLog[2].m = "matchObject"
  /\ Len(apbRet) = 3
  /\ apbRet[3] = apbRet[1]

\* C11: a match(callback) call appends to the pipeline exactly the stages
\* its builder's build() returned, in order, and so nothing (no empty $match
\* stage either) when the builder built nothing.
C11_MatchAppendsBuildOutput ==
  [][(Len(callLog') = Len(callLog) + 1 /\ callLog'[Len(callLog')].m = "match") =>
       LET c == callLog'[Len(callLog')] IN
       \E legacy \in Legacy :
         pipeline' = pipeline \o
                     builtBy(newBuilder(apbFilters), c.callback, c.clock, legacy).matchStages]_vars

\* With no filters, match(f => f.addStringMatch(a).addNumberMatch(b)).sort(s)
\* .build() has returned the $sort stage alone.
C11_Witness ==
  /\ callerFilters = <<>>
  /\ Len(callLog) = 2
  /\ IsMatch(1) /\ callLog[1].callback = CbReadme
  /\ callLog[2].m = "sort"
  /\ builtAfter = 2
  /\ Len(apbRet) = 1
  /\ apbRet[1].s = "$sort"


----------------------------------------------------------------------------
(* The two lookup helpers called directly, as their doc comment shows:     *)
(* LookupStrictHelper.addStrictLookupFromOtherCollection(..., stage =>     *)
(* pipeline.push(stage)), with the callback or without it.  pipeline is    *)
(* the caller's array; callLog records the arguments of each call.         *)

LookupAsNames == {Undefined, Str("joined")}
LookupIds == {Undefined, Str("$orderId")}

InitLookup ==
  /\ NoApb
  /\ filters = <<>>
  /\ initFilters = <<>>
  /\ matchStages = <<>>
  /\ filterQuery = <<>>
  /\ timezone = "UTC"
  /\ queryRet = <<>>
  /\ builds = 0
  /\ ret = <<>>
  /\ origin = <<>>

\* One direct call of a helper: handed is what the helper gave to push.
HelperCall(entry, handed) ==
  /\ Len(callLog) < MaxCalls
  /\ pipeline' = pipeline \o handed
  /\ callLog' = Append(callLog, entry)
  /\ UNCHANGED <<apbFilters, callerFilters, apbRet, contrib, builtAfter>>
  /\ UNCHANGED fsbVars

LookupCall ==
  \E collection \in Collections, asName \in LookupAsNames, id \in LookupIds, push \in BOOLEAN :
    HelperCall([m |-> "addLookupFromOtherCollection", collection |-> collection,
                asName |-> asName, push |-> push],
               addLookupFromOtherCollection(collection, <<>>, Str("userId"), Str("_id"),
                                            asName, id, push))

StrictLookupCall ==
  \E collection \in Collections, asName \in LookupAsNames, id \in LookupIds, push \in BOOLEAN :
    HelperCall([m |-> "addStrictLookupFromOtherCollection", collection |-> collection,
                asName |-> asName, push |-> push],
               addStrictLookupFromOtherCollection(collection, <<>>, Str("userId"), Str("_id"),
                                                  asName, id, push))

NextLookup ==
  \/ LookupCall
  \/ StrictLookupCall

SpecLookup == InitLookup /\ [][NextLookup]_vars

----------------------------------------------------------------------------
(* Properties of the lookup helpers.                                       *)

\* The call just made and the stages it added to the caller's array.
LastCall == callLog'[Len(callLog')]
AddedStages == SubSeq(pipeline', Len(pipeline) + 1, Len(pipeline'))

\* C12: a loose lookup call adds exactly one $lookup stage; a strict lookup
\* call adds exactly two, a $lookup immediately followed by a $unwind whose
\* path is '$' + the lookup's as-name with preserveNullAndEmptyArrays false;
\* either adds nothing when the collection name is empty or no push callback
\* was given.
C12_LookupStages ==
  [][Len(callLog') = Len(callLog) + 1 =>
       /\ IsPrefix(pipeline, pipeline')
       /\ IF LastCall.collection = Str("") \/ ~LastCall.push
            THEN AddedStages = <<>>
            ELSE IF LastCall.m = "addLookupFromOtherCollection"
              THEN /\ Len(AddedStages) = 1
                   /\ AddedStages[1].s = "$lookup"
                   /\ AddedStages[1].from = LastCall.collection
              ELSE /\ Len(AddedStages) = 2
                   /\ AddedStages[1].s = "$lookup"
                   /\ AddedStages[1].from = LastCall.collection
                   /\ LastCall.asName # Undefined => AddedStages[1].as = LastCall.asName
                   /\ AddedStages[2] = [s |-> "$unwind",
                                        path |-> [t |-> "string", dollar |-> AddedStages[1].as],
                                        preserveNullAndEmptyArrays |-> FALSE]]_vars

C12_Witness ==
  /\ Len(callLog) = 2
  /\ callLog[1].m = "addStrictLookupFromOtherCollection"
  /\ callLog[1].collection = Str("orders") /\ callLog[1].push
  /\ callLog[2].m = "addLookupFromOtherCollection"
  /\ callLog[2].collection = Str("orders") /\ callLog[2].push
  /\ Len(pipeline) = 3
  /\ pipeline[2].s = "$unwind"
  /\ pipeline[3].s = "$lookup"


----------------------------------------------------------------------------
(* Properties of the gated rules.                                          *)

\* C13: fallWithinDateRange, fallWithinTimeRange and addFieldsDateRangeMatch
\* always delete their gate key, whatever the outcome of the call: called on
\* the dictionary as it is now, each leaves it without its gate key, also
\* when the flag is not true and when the time string given is invalid.
C13_GateKeyAlwaysDeleted ==
  \A startField \in Fields, endField \in Fields, clock \in Clock, legacy \in Legacy :
    /\ ~Has(fallWithinDateRange(filters, startField, endField, timezone, clock).filters,
            RangeWithinDate)
    /\ \A timeStr \in TimeStrArgs :
         ~Has(fallWithinTimeRange(filters, startField, endField, timezone, timeStr, clock,
                                  legacy).filters,
              RangeWithinTime)
    /\ ~Has(addFieldsDateRangeMatch(filters, startField, endField, timezone, legacy).filters,
            RangeWithinDate)


\* The gate values that switch a boolean-gated rule on, and those that ask
\* addExistsMatch for an absent field.
GateOn == {Bool(TRUE), Str("true")}
GateOff == {Bool(FALSE), Str("false")}

\* C14: a boolean-gated rule emits only when its gate value is true or
\* "true": called on the dictionary as it is now with any other gate value,
\* addNullMatch, addNotNullMatch, addArrayNotEmptyMatch, fallWithinDateRange,
\* fallWithinTimeRange and addFieldsDateRangeMatch emit nothing; addExistsMatch
\* emits {$exists: true} for true / "true", {$exists: false} for false /
\* "false", and nothing for any other value.
C14_GatedRulesEmitOnlyWhenTrue ==
  \A f \in Fields, g \in Fields, clock \in Clock, legacy \in Legacy :
    /\ Get(filters, Sfx(f, <<"isnull">>)) \notin GateOn => addNullMatch(filters, f).push = <<>>
    /\ Get(filters, Sfx(f, <<"notnull">>)) \notin GateOn =>
         addNotNullMatch(filters, f).push = <<>>
    /\ Get(filters, Sfx(f, <<"nt", "empty">>)) \notin GateOn =>
         addArrayNotEmptyMatch(filters, f).push = <<>>
    /\ Get(filters, RangeWithinDate) \notin GateOn =>
         /\ fallWithinDateRange(filters, f, g, timezone, clock).push = <<>>
         /\ addFieldsDateRangeMatch(filters, f, g, timezone, legacy).push = <<>>
    /\ Get(filters, RangeWithinTime) \notin GateOn =>
         \A timeStr \in TimeStrArgs :
           fallWithinTimeRange(filters, f, g, timezone, timeStr, clock, legacy).push = <<>>
    /\ LET existsFlag == Get(filters, Sfx(f, <<"exists">>))
           pushed == addExistsMatch(filters, f).push IN
         pushed = IF existsFlag \in GateOn
                    THEN <<Match(f, Ops(<<Op("$exists", Bool(TRUE))>>))>>
                  ELSE IF existsFlag \in GateOff
                    THEN <<Match(f, Ops(<<Op("$exists", Bool(FALSE))>>))>>
                  ELSE <<>>

\* addExistsMatch has emitted {$exists: false} for the gate value "false".
C14_Witness ==
  /\ Len(origin) = 1
  /\ origin[1].by = "addExistsMatch"
  /\ Get(initFilters, Sfx(A, <<"exists">>)) = Str("false")
  /\ matchStages = <<Match(A, Ops(<<Op("$exists", Bool(FALSE))>>))>>
  /\ ~Has(filters, Sfx(A, <<"exists">>))


----------------------------------------------------------------------------
(* Properties of the number and range rules.                               *)

\* C15: addNumberMatch(field), called on the dictionary as it is now when it
\* holds under field a value (not the empty string) that Number() turns into
\* a number, emits exactly one stage {field: <that number>}, a number and not
\* the original string, and removes field from the dictionary, leaving the
\* other keys as they are.
C15_NumberMatchCoerces ==
  \A f \in Fields :
    LET v == Get(filters, f)
        r == addNumberMatch(filters, f, Undefined) IN
    (v \notin {Undefined, Str("")} /\ Number(v).t = "number") =>
      /\ Len(r.push) = 1
      /\ r.push[1].s = "$match" /\ r.push[1].f = f
      /\ r.push[1].c.t = "number"
      /\ r.push[1].c = Number(v)
      /\ v = Str("30") => r.push[1].c = Num(30)
      /\ r.filters = Delete(filters, f)
      /\ ~Has(r.filters, f)

C15_Witness ==
  /\ Get(initFilters, A) = Str("30")
  /\ Len(origin) = 1
  /\ origin[1].by = "addNumberMatch"
  /\ matchStages = <<Match(A, Num(30))>>
  /\ ~Has(filters, A)


----------------------------------------------------------------------------
(* A builder constructed with both keys of one date range, or with date    *)
(* comparison keys, on which setTimezone, addDateRangeMatch and the four   *)
(* date comparison rules are called.                                       *)

\* ISO strings, instants given as integer milliseconds, a Date, and a string
\* that is no date.
DateInputs ==
  {Str(IsoDay), Str(IsoDayTime), Num(DayMs + 20 * HourMs), Num(3 * DayMs - 1),
   DateOf(DayMs + HourMs), Str("abc")}

DateCompareSuffixes == {<<"gtDate">>, <<"gteDate">>, <<"ltDate">>, <<"lteDate">>}

InitDates ==
  /\ filters \in Pairs(Sfx(A, <<"from">>), DateInputs, Sfx(A, <<"to">>), DateInputs)
                   \cup Family(DateCompareSuffixes, DateInputs \cup {Null, Str("")})
                   \cup Pairs(Sfx(A, <<"gteDate">>), DateInputs, Sfx(A, <<"lteDate">>), DateInputs)
  /\ initFilters = filters
  /\ matchStages = <<>>
  /\ filterQuery = <<>>
  /\ timezone = "UTC"
  /\ queryRet = <<>>
  /\ builds = 0
  /\ ret = <<>>
  /\ origin = <<>>
  /\ NoApb

NextDates ==
  \/ SetTimezone
  \/ AddDateRangeMatch
  \/ AddGreaterThanDateMatch
  \/ AddGreaterThanOrEqualDateMatch
  \/ AddLessThanDateMatch
  \/ AddLessThanOrEqualDateMatch

SpecDates == InitDates /\ [][NextDates]_vars

\* g is the first millisecond of the day of the instant x on the calendar
\* of the zone.
IsDayStart(g, x, zone) ==
  /\ (g + TzOffset(zone)) % DayMs = 0
  /\ g <= x
  /\ x < g + DayMs

\* C16: addDateRangeMatch(field), called on the dictionary as it is now with
\* valid field-from and field-to, emits exactly one stage whose $gte is the
\* start of the from day and whose $lte is the end of the to day (its start
\* plus 86,399,999 ms) in the configured timezone; with timezone UTC and an
\* instant given in milliseconds these are floor(from/day)*day and
\* floor(to/day)*day + day - 1.
C16_DateRangeDayBounds ==
  \A f \in Fields, legacy \in Legacy :
    LET from == Get(filters, Sfx(f, <<"from">>))
        to == Get(filters, Sfx(f, <<"to">>))
        mFrom == tz(from, timezone, legacy)
        mTo == tz(to, timezone, legacy)
        r == addDateRangeMatch(filters, f, timezone, legacy) IN
    (Present(from) /\ Present(to) /\ isValid(mFrom) /\ isValid(mTo)) =>
      /\ Len(r.push) = 1
      /\ r.push[1].s = "$match" /\ r.push[1].f = f
      /\ Len(r.push[1].c.e) = 2
      /\ LET gte == r.push[1].c.e[1]
             lte == r.push[1].c.e[2] IN
           /\ gte.o = "$gte" /\ gte.v.t = "date"
           /\ lte.o = "$lte" /\ lte.v.t = "date"
           /\ IsDayStart(gte.v.ms, mFrom.ms, timezone)
           /\ IsDayStart(lte.v.ms - 86399999, mTo.ms, timezone)
           /\ (timezone = "UTC" /\ from.t = "number") =>
                gte.v.ms = (from.n \div DayMs) * DayMs
           /\ (timezone = "UTC" /\ to.t = "number") =>
                lte.v.ms = (to.n \div DayMs) * DayMs + DayMs - 1
           /\ from = Str(IsoDay) => gte.v.ms = DayMs - TzOffset(timezone)
           /\ to = Str(IsoDay) => lte.v.ms = 2 * DayMs - 1 - TzOffset(timezone)

\* In Asia/Tokyo, from 1970-01-02T20:00Z (already 3 January there) and to
\* 1970-01-03T23:59:59.999Z (4 January there) gave 3 January 00:00 and
\* 4 January 23:59:59.999 of Tokyo.
C16_Witness ==
  /\ timezone = "Asia/Tokyo"
  /\ Get(initFilters, Sfx(A, <<"from">>)) = Num(DayMs + 20 * HourMs)
  /\ Get(initFilters, Sfx(A, <<"to">>)) = Num(3 * DayMs - 1)
  /\ Len(origin) = 1
  /\ origin[1].by = "addDateRangeMatch"
  /\ matchStages = <<Match(A, Ops(<<Op("$gte", DateOf(DayMs + 15 * HourMs)),
                                    Op("$lte", DateOf(3 * DayMs + 15 * HourMs - 1))>>))>>
  /\ filters = <<>>


\* What a range rule must hand over when its from / to bounds are usable or
\* not: r is what the call came to, f the field.
RangeShape(r, f, useFrom, useTo) ==
  /\ Len(r.push) = IF useFrom \/ useTo THEN 1 ELSE 0
  /\ \A i \in DOMAIN r.push :
       /\ r.push[i].s = "$match" /\ r.push[i].f = f
       /\ [j \in DOMAIN r.push[i].c.e |-> r.push[i].c.e[j].o]
            = (IF useFrom THEN <<"$gte">> ELSE <<>>) \o (IF useTo THEN <<"$lte">> ELSE <<>>)
  /\ ~Has(r.filters, Sfx(f, <<"from">>))
  /\ ~Has(r.filters, Sfx(f, <<"to">>))

\* C17: addRangeMatch and addDateRangeMatch, called on the dictionary as it
\* is now, never emit an empty range: with only field-from usable they emit a
\* one-sided {$gte}, with only field-to usable a one-sided {$lte}, with both
\* one stage carrying both bounds, with neither no stage; in every case both
\* field-from and field-to are deleted.
C17_RangeNeverEmpty ==
  \A f \in Fields, legacy \in Legacy :
    LET from == Get(filters, Sfx(f, <<"from">>))
        to == Get(filters, Sfx(f, <<"to">>)) IN
    /\ RangeShape(addRangeMatch(filters, f), f, Present(from), Present(to))
    /\ Present(from) => addRangeMatch(filters, f).push[1].c.e[1].v = from
    /\ RangeShape(addDateRangeMatch(filters, f, timezone, legacy), f,
                  Present(from) /\ isValid(tz(from, timezone, legacy)),
                  Present(to) /\ isValid(tz(to, timezone, legacy)))

\* addDateRangeMatch was called with a valid field-from and a field-to that
\* is no date: one stage with $gte alone, and both keys are gone.
C17_Witness ==
  /\ Get(initFilters, Sfx(A, <<"from">>)) = Str(IsoDay)
  /\ Get(initFilters, Sfx(A, <<"to">>)) = Str("abc")
  /\ Len(origin) = 1
  /\ origin[1].by = "addDateRangeMatch"
  /\ matchStages = <<Match(A, Ops(<<Op("$gte", DateOf(DayMs))>>))>>
  /\ ~Has(filters, Sfx(A, <<"from">>))
  /\ ~Has(filters, Sfx(A, <<"to">>))


----------------------------------------------------------------------------
(* A builder constructed with one raw string under a bare key, on which    *)
(* addRegexMatch is called.                                                *)

\* Every metacharacter and two plain characters.
RegexAlphabet == RegexMeta \cup {"a", "b"}

RawTexts == UNION {[1..n -> RegexAlphabet] : n \in 1..MaxLen}

InitRegex ==
  /\ filters \in {<<Entry(A, Text(cs))>> : cs \in RawTexts}
  /\ initFilters = filters
  /\ matchStages = <<>>
  /\ filterQuery = <<>>
  /\ timezone = "UTC"
  /\ queryRet = <<>>
  /\ builds = 0
  /\ ret = <<>>
  /\ origin = <<>>
  /\ NoApb

SpecRegex == InitRegex /\ [][AddRegexMatch]_vars

----------------------------------------------------------------------------
(* Properties of addRegexMatch.                                            *)

\* Where the i-th character of raw stands in the escaped string: after one
\* more place for every metacharacter up to and including it.
EscapedAt(raw, i) == i + Cardinality({j \in 1..i : raw[j] \in RegexMeta})

\* C18: addRegexMatch, called on the dictionary as it is now, emits a stage
\* whose $regex is the raw value with a backslash put before every
\* metacharacter (. * + ? ^ $ { } ( ) | [ ] \), all other characters
\* unchanged and in order, and whose $options is "i" when no options are
\* given; a.b becomes a\.b.
C18_RegexEscaped ==
  \A f \in Fields :
    (Has(filters, f) /\ "chars" \in DOMAIN Get(filters, f)) =>
      LET raw == Get(filters, f).chars
          r == addRegexMatch(filters, f, Undefined)
          ops == r.push[1].c.e
          out == ops[1].v.chars IN
      /\ Len(r.push) = 1
      /\ r.push[1].s = "$match" /\ r.push[1].f = f
      /\ Len(ops) = 2
      /\ ops[1].o = "$regex"
      /\ ops[2] = Op("$options", Str("i"))
      /\ Len(out) = Len(raw) + Cardinality({j \in DOMAIN raw : raw[j] \in RegexMeta})
      /\ \A i \in DOMAIN raw :
           /\ out[EscapedAt(raw, i)] = raw[i]
           /\ raw[i] \in RegexMeta => out[EscapedAt(raw, i) - 1] = "\\"
      /\ raw = <<"a", ".", "b">> => out = <<"a", "\\", ".", "b">>
      /\ addRegexMatch(filters, f, Str("m")).push[1].c.e[2] = Op("$options", Str("m"))

C18_Witness ==
  /\ initFilters = <<Entry(A, Text(<<"a", ".", "b">>))>>
  /\ filters = <<>>
  /\ Len(origin) = 1
  /\ origin[1].by = "addRegexMatch"
  /\ matchStages = <<Match(A, Ops(<<Op("$regex", Text(<<"a", "\\", ".", "b">>)),
                                    Op("$options", Str("i"))>>))>>


----------------------------------------------------------------------------
(* Properties of the identifier rules.                                     *)

\* The candidates that a value under field-in stands for.
Candidates(v) == IF v.t = "array" THEN v.a ELSE <<v>>

\* The position in cands of its k-th candidate that passes the
\* identifier-format predicate.
KthValid(cands, k) ==
  CHOOSE i \in DOMAIN cands :
    /\ isValidObjectId(cands[i])
    /\ Cardinality({j \in 1..i : isValidObjectId(cands[j])}) = k

\* C19: addInMatchWithObjectIds(field), called on the dictionary as it is now
\* when field-in holds a value, emits one $in stage holding exactly the
\* candidates that pass the identifier-format predicate, in their original
\* order and converted to the identifier type; invalid candidates are
\* dropped, no stage is emitted when none is valid, and field-in is deleted
\* in both cases.
C19_InMatchValidIdsOnly ==
  \A f \in Fields :
    LET v == Get(filters, Sfx(f, <<"in">>))
        cands == Candidates(v)
        count == Cardinality({i \in DOMAIN cands : isValidObjectId(cands[i])})
        r == addInMatchWithObjectIds(filters, f, Undefined) IN
    (v # Undefined /\ v # Null) =>
      /\ ~Has(r.filters, Sfx(f, <<"in">>))
      /\ Len(r.push) = IF count > 0 THEN 1 ELSE 0
      /\ count > 0 =>
           LET ops == r.push[1].c.e IN
           /\ r.push[1].s = "$match" /\ r.push[1].f = f
           /\ Len(ops) = 1 /\ ops[1].o = "$in" /\ ops[1].v.t = "array"
           /\ Len(ops[1].v.a) = count
           /\ \A k \in 1..count :
                /\ ops[1].v.a[k].t = "objectid"
                /\ ops[1].v.a[k] = ObjectId(cands[KthValid(cands, k)].s)

\* Of three candidates the invalid one in the middle was dropped and the
\* other two kept their order.
C19_Witness ==
  /\ Get(initFilters, Sfx(A, <<"in">>)) = IdArrayOfThree
  /\ Len(origin) = 1
  /\ origin[1].by = "addInMatchWithObjectIds"
  /\ matchStages = <<Match(A, Ops(<<Op("$in", Arr(<<ObjectId(OtherHex), ObjectId(ValidHex)>>))>>))>>
  /\ ~Has(filters, Sfx(A, <<"in">>))


----------------------------------------------------------------------------
(* Properties of the error paths.                                          *)

\* C20: no rule call and no build() ever ends in an error: whatever the
\* dictionary holds, every rule called on it as it is now completes
\* normally, and so does build().
C20_NoCallEndsInError ==
  /\ \A c \in ReadsOf(filters, timezone) : "threw" \notin DOMAIN c.r
  /\ "threw" \notin DOMAIN build(filters)

----------------------------------------------------------------------------
(* A rule that turns its value down, and the build() that follows.         *)

\* The bare-key rules that can turn down the value under the field they are
\* called for, called on d without an override.
BareReadsOf(d, f, zone) ==
  {Read("addStringMatch", addStringMatch(d, f, Undefined), {f}),
   Read("addNumberMatch", addNumberMatch(d, f, Undefined), {f}),
   Read("addBooleanValueMatch", addBooleanValueMatch(d, f, Undefined), {f}),
   Read("addObjectIdMatch", addObjectIdMatch(d, f), {f}),
   Read("addObjectIdsMatch", addObjectIdsMatch(d, f), {f})}
  \cup {Read("addDateMatch", addDateMatch(d, f, zone, Undefined, legacy), {f}) : legacy \in Legacy}

\* The call returned and handed nothing to pushMatchStage although the
\* dictionary holds a value under its field: the rule turned the value down.
Rejected(d, f, c) ==
  /\ Present(Get(d, f))
  /\ "threw" \notin DOMAIN c.r
  /\ c.r.push = <<>>

StagesFor(stages, f) == SelectSeq(stages, LAMBDA st : st.f = f)

\* C21: after a bare-key rule has turned down the value under its field, the
\* build() that follows returns no stage for that field.
C21_RejectedFieldNotEmitted ==
  \A f \in Fields : \A c \in BareReadsOf(filters, f, timezone) :
    Rejected(filters, f, c) => StagesFor(build(c.r.filters).push, f) = <<>>

----------------------------------------------------------------------------
(* addBooleanMatch.                                                        *)

\* C22: one addBooleanMatch(field) call emits {field: true} when field-true
\* is true or "true", whatever field-false holds; otherwise {field: false}
\* when field-false is true or "true"; otherwise nothing.  It never emits
\* both stages.
C22_BooleanMatchHonorsOneFlag ==
  \A f \in Fields :
    LET r == addBooleanMatch(filters, f)
        onTrue == Get(filters, Sfx(f, <<"true">>)) \in {Bool(TRUE), Str("true")}
        onFalse == Get(filters, Sfx(f, <<"false">>)) \in {Bool(TRUE), Str("true")} IN
    /\ Len(r.push) <= 1
    /\ onTrue => r.push = <<Match(f, Bool(TRUE))>>
    /\ (~onTrue /\ onFalse) => r.push = <<Match(f, Bool(FALSE))>>
    /\ (~onTrue /\ ~onFalse) => r.push = <<>>

\* addBooleanMatch was called on a dictionary whose a-true and a-false were
\* both set: it emitted {a: true} alone and a-false is still there.
C22_Witness ==
  /\ Get(initFilters, Sfx(A, <<"true">>)) = Bool(TRUE)
  /\ Get(initFilters, Sfx(A, <<"false">>)) = Str("true")
  /\ matchStages = <<Match(A, Bool(TRUE))>>
  /\ origin[1].by = "addBooleanMatch"
  /\ Has(filters, Sfx(A, <<"false">>))
  /\ ~Has(filters, Sfx(A, <<"true">>))

----------------------------------------------------------------------------
(* addBooleanValueMatch.                                                   *)

\* The spellings of "true" and of "false" among the values of the model.
TrueTexts == {Str("true"), Str("TRUE")}
FalseTexts == {Str("false"), Str("False")}

\* C23: addBooleanValueMatch(field), called on the dictionary as it is now
\* with a value v under field, emits {field: true} for "true" and
\* {field: false} for "false" in any letter case, emits nothing and leaves
\* the key for any other text, passes a boolean through unchanged and emits
\* {field: Boolean(v)} for a v of any other type; when it emits, field is
\* deleted.
C23_BooleanValueMatch ==
  \A f \in Fields :
    LET v == Get(filters, f)
        r == addBooleanValueMatch(filters, f, Undefined) IN
    v # Undefined =>
      /\ v \in TrueTexts => r.push = <<Match(f, Bool(TRUE))>>
      /\ v \in FalseTexts => r.push = <<Match(f, Bool(FALSE))>>
      /\ (v.t = "string" /\ v \notin TrueTexts \cup FalseTexts) =>
           r.push = <<>> /\ r.filters = filters
      /\ v.t = "boolean" => r.push = <<Match(f, v)>>
      /\ v.t \notin {"string", "boolean"} => r.push = <<Match(f, Bool(Truthy(v)))>>
      /\ r.push # <<>> => ~Has(r.filters, f)

\* addBooleanValueMatch has turned the text "TRUE" under a into {a: true}
\* and deleted the key.
C23_Witness ==
  /\ initFilters = <<Entry(A, Str("TRUE"))>>
  /\ matchStages = <<Match(A, Bool(TRUE))>>
  /\ origin[1].by = "addBooleanValueMatch"
  /\ filters = <<>>

----------------------------------------------------------------------------
(* addOrMatch, addAndMatch, addOrMatchWithPrefix.                          *)

\* The compound rules called on d: the method, the key it reads, the
\* operator it emits under and what the call comes to.
Compound(by, key, operator, r) == [by |-> by, key |-> key, operator |-> operator, r |-> r]

CompoundsOf(d) ==
  {Compound("addOrMatch", <<"or">>, "$or", addOrMatch(d)),
   Compound("addAndMatch", <<"and">>, "$and", addAndMatch(d))}
  \cup {Compound("addOrMatchWithPrefix", Sfx(f, <<"or">>), "$or", addOrMatchWithPrefix(d, f)) :
          f \in Fields}

\* C24: a compound rule emits one {$or: v} / {$and: v} stage and deletes its
\* key if and only if the value v under the key is a non-empty array; for
\* any other value it emits nothing, and no stage is ever emitted from that
\* key: every stage that comes from a compound key is the stage of its own
\* rule over a non-empty array, never one of build()'s sweep.
C24_CompoundOnlyNonEmptyArray ==
  /\ \A c \in CompoundsOf(filters) :
       LET v == Get(filters, c.key) IN
       IF v.t = "array" /\ Len(v.a) > 0
         THEN c.r.push = <<Match(<<c.operator>>, v)>> /\ ~Has(c.r.filters, c.key)
         ELSE c.r.push = <<>> /\ c.r.filters = filters
  /\ \A i \in DOMAIN origin : \A c \in CompoundsOf(initFilters) :
       c.key \in origin[i].src =>
         /\ origin[i].by = c.by
         /\ matchStages[i] = Match(<<c.operator>>, Get(initFilters, c.key))
         /\ Get(initFilters, c.key).t = "array"
         /\ Len(Get(initFilters, c.key).a) > 0

\* addOrMatch has emitted {$or: [..]} from a non-empty array and deleted or;
\* the build() after it returned that stage alone.
C24_Witness ==
  /\ initFilters = <<Entry(<<"or">>, CondArray)>>
  /\ Len(origin) = 1
  /\ origin[1].by = "addOrMatch"
  /\ builds = 1
  /\ ret = <<Match(<<"$or">>, CondArray)>>
  /\ filters = <<>>

----------------------------------------------------------------------------
(* The four date comparison rules.                                         *)

\* A date comparison rule called on d: the method, the key it reads, the
\* operator it emits, whether it compares with the end of the day, and what
\* the call comes to.
DateCompare(by, key, operator, atEnd, r) ==
  [by |-> by, key |-> key, operator |-> operator, atEnd |-> atEnd, r |-> r]

DateComparesOf(d, f, zone, legacy) ==
  {DateCompare("addGreaterThanDateMatch", Sfx(f, <<"gtDate">>), "$gt", TRUE,
               addGreaterThanDateMatch(d, f, zone, legacy)),
   DateCompare("addLessThanOrEqualDateMatch", Sfx(f, <<"lteDate">>), "$lte", TRUE,
               addLessThanOrEqualDateMatch(d, f, zone, legacy)),
   DateCompare("addGreaterThanOrEqualDateMatch", Sfx(f, <<"gteDate">>), "$gte", FALSE,
               addGreaterThanOrEqualDateMatch(d, f, zone, legacy)),
   DateCompare("addLessThanDateMatch", Sfx(f, <<"ltDate">>), "$lt", FALSE,
               addLessThanDateMatch(d, f, zone, legacy))}

\* b is the day boundary of the instant x on the calendar of the zone: the
\* last millisecond of its day (atEnd) or the first.
IsDayBoundary(b, x, zone, atEnd) ==
  IF atEnd THEN IsDayStart(b - (DayMs - 1), x, zone) ELSE IsDayStart(b, x, zone)

\* C25: a date comparison rule, called on the dictionary as it is now,
\* always deletes its key; for a valid date it emits one stage under its
\* operator whose bound is a day boundary of the parsed date in the
\* configured timezone (field-gtDate $gt and field-lteDate $lte the end of
\* the day, field-gteDate $gte and field-ltDate $lt its start); for an
\* invalid or blank value it emits nothing.
C25_DateCompareDayBoundary ==
  \A f \in Fields, legacy \in Legacy : \A c \in DateComparesOf(filters, f, timezone, legacy) :
    LET raw == Get(filters, c.key)
        parsed == tz(raw, timezone, legacy) IN
    /\ ~Has(c.r.filters, c.key)
    /\ IF Present(raw) /\ isValid(parsed)
         THEN /\ Len(c.r.push) = 1
              /\ c.r.push[1].f = f
              /\ Len(c.r.push[1].c.e) = 1
              /\ c.r.push[1].c.e[1].o = c.operator
              /\ IsDayBoundary(c.r.push[1].c.e[1].v.ms, parsed.ms, timezone, c.atEnd)
         ELSE c.r.push = <<>>

\* With the timezone set to Asia/Tokyo, addGreaterThanDateMatch has turned
\* a-gtDate = "1970-01-03T10:30:15" into $gt the last millisecond of 3
\* January in Tokyo, and the key is gone.
C25_Witness ==
  /\ timezone = "Asia/Tokyo"
  /\ initFilters = <<Entry(Sfx(A, <<"gtDate">>), Str(IsoDayTime))>>
  /\ Len(origin) = 1
  /\ origin[1].by = "addGreaterThanDateMatch"
  /\ matchStages = <<Match(A, Ops(<<Op("$gt", DateOf(3 * DayMs - 9 * HourMs - 1))>>))>>
  /\ filters = <<>>

----------------------------------------------------------------------------
(* addRangeMatch.                                                          *)

\* C26: addRangeMatch applies the range it derives from the -from and -to
\* keys to two separate target fields: when it emits, the same $gte / $lte
\* condition is emitted on two different fields.
C26_RangeOnTwoFields ==
  \A f \in Fields :
    LET r == addRangeMatch(filters, f) IN
    r.push # <<>> =>
      \E i \in DOMAIN r.push, j \in DOMAIN r.push :
        /\ r.push[i].f # r.push[j].f
        /\ r.push[i].c = r.push[j].c

----------------------------------------------------------------------------
(* addFieldExists.                                                         *)

ExistsStage(f, shouldExist) == Match(f, Ops(<<Op("$exists", Bool(shouldExist))>>))

\* addFieldExists(f, shouldExist, filterKey) called on d reads key, emits
\* its stage exactly when gate holds, and leaves key absent.
GatedByKey(d, f, shouldExist, filterKey, key) ==
  LET r == addFieldExists(d, f, shouldExist, filterKey) IN
  /\ r.push = (IF Get(d, key) \in GateOn THEN <<ExistsStage(f, shouldExist)>> ELSE <<>>)
  /\ ~Has(r.filters, key)

\* Called without a filterKey it emits its one stage whatever d holds and
\* leaves field-exists absent.
Ungated(d, f, shouldExist) ==
  LET r == addFieldExists(d, f, shouldExist, Undefined) IN
  /\ r.push = <<ExistsStage(f, shouldExist)>>
  /\ ~Has(r.filters, Sfx(f, <<"exists">>))

\* C27: addFieldExists called with a filterKey emits {field: {$exists:
\* shouldExist}} if and only if filters[filterKey] is true or "true" and
\* always deletes filterKey; called without a filterKey (undefined) it emits
\* exactly one such stage whatever the dictionary holds and deletes
\* field-exists if it was present.
C27_FieldExists ==
  \A f \in Fields, shouldExist \in BOOLEAN, filterKey \in FilterKeyArgs :
    IF filterKey # Undefined
      THEN GatedByKey(filters, f, shouldExist, filterKey, filterKey.key)
      ELSE Ungated(filters, f, shouldExist)

\* C27 as the code has it: the same for a non-empty filterKey and for no
\* filterKey; called with the empty string as filterKey it reads
\* field-exists, emits if and only if that is true or "true", and deletes
\* field-exists.
C27_FieldExistsNonEmptyKey ==
  \A f \in Fields, shouldExist \in BOOLEAN, filterKey \in FilterKeyArgs :
    IF filterKey = Undefined THEN Ungated(filters, f, shouldExist)
    ELSE IF filterKey = FieldName(<<"">>)
      THEN GatedByKey(filters, f, shouldExist, filterKey, Sfx(f, <<"exists">>))
    ELSE GatedByKey(filters, f, shouldExist, filterKey, filterKey.key)

\* addFieldExists has emitted {a: {$exists: ..}} from a dictionary whose
\* a-exists was "false" (so it was called without a filterKey) and has
\* deleted a-exists.
C27_Witness ==
  /\ initFilters = <<Entry(Sfx(A, <<"exists">>), Str("false"))>>
  /\ Len(origin) = 1
  /\ origin[1].by = "addFieldExists"
  /\ matchStages[1].c.e[1].o = "$exists"
  /\ filters = <<>>

----------------------------------------------------------------------------
(* applyDefaultFilters and getFilterQuery.                                 *)

\* applyDefaultFilters and getFilterQuery called at any point among calls of
\* rules that consume bare and suffixed keys and build().
NextQuery ==
  \/ ApplyDefaultFilters
  \/ GetFilterQuery
  \/ AddStringMatch
  \/ AddNumberMatch
  \/ AddBooleanValueMatch
  \/ AddRangeMatch
  \/ Build

SpecQuery == Init /\ [][NextQuery]_vars

\* The entries of d that applyDefaultFilters copies.
PresentEntries(d) == {d[i] : i \in {j \in 1..Len(d) : Present(d[j].v)}}

Entries(d) == {d[i] : i \in 1..Len(d)}

\* What build() would return if it were called now.
BuildOutput == pushMatchStage(matchStages, build(filters).push)

\* C28: applyDefaultFilters copies every dictionary entry whose value is
\* not undefined, null or "" into the filter query (and nothing else),
\* leaving the stage sequence and the dictionary as they were;
\* getFilterQuery returns the filter query as it is; and what build()
\* returns is made of the stage sequence and the dictionary alone, which
\* applyDefaultFilters leaves unchanged.
C28_DefaultFiltersFrame ==
  [][/\ filterQuery' # filterQuery =>
          /\ PresentEntries(filters) \subseteq Entries(filterQuery')
          /\ Keys(filterQuery') = Keys(filterQuery) \cup {e.k : e \in PresentEntries(filters)}
          /\ \A e \in Entries(filterQuery) :
               e \in Entries(filterQuery') \/ e.k \in {x.k : x \in PresentEntries(filters)}
          /\ filters' = filters
          /\ matchStages' = matchStages
          /\ BuildOutput' = BuildOutput
     /\ queryRet' # queryRet => queryRet' = filterQuery /\ filterQuery' = filterQuery
     /\ builds' = builds + 1 => ret' = BuildOutput /\ filterQuery' = filterQuery]_vars

\* applyDefaultFilters ran before a rule consumed the key a and again after
\* it; getFilterQuery returned the copied entry, and build() returned the
\* rule's stage alone.
C28_Witness ==
  /\ builds = 1
  /\ Len(initFilters) = 1
  /\ Len(origin) = 1
  /\ origin[1].by # "build"
  /\ ret = matchStages
  /\ filters = <<>>
  /\ filterQuery = initFilters
  /\ queryRet = filterQuery

----------------------------------------------------------------------------
(* The dictionary over the calls.                                          *)

\* C29: the dictionary only ever shrinks: every rule call and every build()
\* leaves a dictionary each of whose entries was there before with the same
\* value, so the dictionary is always a sub-mapping of the one the builder
\* was constructed with.
C29_DictionaryOnlyShrinks ==
  [][/\ Entries(filters') \subseteq Entries(filters)
     /\ Len(filters') <= Len(filters)
     /\ Entries(filters') \subseteq Entries(initFilters)]_vars

\* A rule has consumed one key of three; the other two are still there with
\* their values.
C29_Witness ==
  /\ Len(initFilters) = 3
  /\ Len(filters) = 2
  /\ Len(origin) = 1
  /\ origin[1].by # "build"
  /\ builds = 0
  /\ Entries(filters) \subseteq Entries(initFilters)

----------------------------------------------------------------------------
(* A bare-key rule called with an override, and the build() that follows.  *)

\* The four bare-key rules called on d with an override for the field f:
\* what the call comes to and the stage the override makes.
BareOverride(by, r, stage) == [by |-> by, r |-> r, stage |-> stage]

BareOverridesOf(d, f, zone) ==
  {BareOverride("addStringMatch", addStringMatch(d, f, Str("x")), Match(f, Str("x"))),
   BareOverride("addNumberMatch", addNumberMatch(d, f, Num(5)), Match(f, Num(5))),
   BareOverride("addBooleanValueMatch", addBooleanValueMatch(d, f, Bool(FALSE)),
                Match(f, Bool(FALSE))),
   BareOverride("addDateMatch", addDateMatch(d, f, zone, DateOf(HourMs), InvalidDate),
                Match(f, DateOf(HourMs)))}

\* C30: when a bare-key rule is called with an override while the dictionary
\* holds a value that is not undefined, null or "" under the same field, the
\* sequence build() then returns holds two equality stages for the field:
\* the override stage at the position of the call and, after it, the
\* dictionary value emitted by the sweep.
C30_OverrideThenSweep ==
  \A f \in Fields : \A c \in BareOverridesOf(filters, f, timezone) :
    LET v == Get(filters, f)
        out == pushMatchStage(pushMatchStage(matchStages, c.r.push), build(c.r.filters).push)
        at == Len(matchStages) + 1 IN
    Present(v) =>
      /\ c.r.push = <<c.stage>>
      /\ out[at] = c.stage
      /\ \E j \in (at + 1)..Len(out) : out[j] = Match(f, v)
      /\ Len(StagesFor(build(c.r.filters).push, f)) = 1

\* addStringMatch was called with an override on {a: "abc"} and build()
\* after it: the override stage, then the swept dictionary value.
C30_Witness ==
  /\ initFilters = <<Entry(A, Str("abc"))>>
  /\ builds = 1
  /\ Len(origin) = 2
  /\ origin[1].by = "addStringMatch"
  /\ origin[2].by = "build"
  /\ ret = <<Match(A, Str("x")), Match(A, Str("abc"))>>

====
